---- MODULE Spec2Model ----
(***************************************************************************)
(* Campaign engine of the LinkedIn automation tool: the connection-request *)
(* campaign (connect.SendRequests) and the follow-up campaign              *)
(* (messaging.SendFollowUps), each over its own persisted state            *)
(* (connection_state / message_state in the FileStore).                    *)
(*                                                                         *)
(* A campaign run is a sequential process; pc is its position:             *)
(*   "idle"  no run yet                                                    *)
(*   "loop"  at the head of `for i, profileURL := range profiles`          *)
(*   "step"  the per-target step (sendConnectionRequest, or                *)
(*           checkIfConnected + sendFollowUpMessage) is in progress        *)
(*   "save"  the step returned and its outcome is recorded in memory;      *)
(*           the save of the state is next                                 *)
(*   "pace"  the state save returned; the pacing sleep is next             *)
(*   "done"  the run is over; ret tells how                                *)
(* One process runs both campaigns, one after the other (main), and a run   *)
(* of either campaign may follow a run of either. The environment may kill *)
(* the process at any position, may make a store load or save fail, and    *)
(* may let the calendar day advance at any position, a run in progress     *)
(* included.                                                               *)
(***************************************************************************)
EXTENDS Integers, Sequences, FiniteSets, TLC

\* ---------------------------------------------------------------- bounds
MaxLen   == 3      \* longest profile list handed to a campaign
MaxQuota == 2      \* largest MaxPerDay
MaxDay   == 2      \* calendar days 1..MaxDay
MaxRuns  == 2      \* campaign runs in one behaviour
MaxFaults == 1     \* store loads/saves that fail, and torn writes, in one behaviour
MaxKills == 1      \* abrupt terminations on one day

Targets == {"A", "B"}

Workflows == {"connect", "followup"}

RECURSIVE SeqsUpTo(_)
SeqsUpTo(n) ==
    IF n = 0 THEN {<<>>}
    ELSE LET shorter == SeqsUpTo(n - 1)
         IN  shorter \cup {Append(s, t) : s \in {x \in shorter : Len(x) = n - 1}, t \in Targets}

ProfileLists == SeqsUpTo(MaxLen)

Min(a, b) == IF a <= b THEN a ELSE b

VARIABLES
    workflow,    \* the campaign of the current run, or of the last one:
                 \* "connect" (SendRequests) or "followup" (SendFollowUps)
    maxPerDay,   \* RequestConfig.MaxPerDay / FollowUpConfig.MaxPerDay
    today,       \* time.Now().Format("2006-01-02"), as a day number
    connStore,   \* FileStore content under key connection_state
    msgStore,    \* FileStore content under key message_state
    pc,          \* position of the campaign run
    profiles,    \* the profiles argument of the run
    i,           \* loop index (1-based)
    cstate,      \* the in-memory *ConnectionState of the run
    mstate,      \* the in-memory *MessageState of the run
    counts,      \* successCount, skipCount, notConnectedCount, errorCount
    ret,         \* how the last run ended: "none", "nil", "error", "panic", "killed"
    runs,        \* number of runs started
    okTodayOf,   \* history: for each campaign, the steps that really succeeded
                 \* on the current day
    actedOf,     \* history: for each campaign, the targets whose step has
                 \* really succeeded, on any day
    crashes,     \* history: abrupt terminations on the current day
    overnight,   \* history: a run was in progress when the current day began
    faults,      \* history: store loads and saves that failed, and torn writes
    runFault,    \* history: a store load or save failed in the current run
    replay,      \* history: the current run replays the previous run (same list,
                 \* same day, previous run returned with every save done)
    \* -- the profile page met by sendConnectionRequest is an input of the step
    stepErr,     \* the error sendConnectionRequest returned ("" for nil)
    undelivered, \* history: the actions of that step whose delivery failed
    challenge,   \* history: the run (its number) in which a step has met a
                 \* checkpoint / CAPTCHA / challenge page, 0 if none has
    \* -- the operator's stop signal
    cancelled,   \* main's ctx has been cancelled by the signal goroutine
    \* -- the pacing wait
    waitCfg,     \* WaitBetweenRequests / WaitBetweenMessages (milliseconds), an int
    waitTime,    \* the time.Duration handed to time.Sleep by the last pacing wait
    \* -- search.FindPeople
    seenStore,   \* FileStore content under key seen_profiles
    dpc,         \* position of FindPeople: "idle", "loop", "paginate", "save", "done"
    seenProfiles,\* the in-memory seenProfiles map (its keys)
    allProfiles, \* the allProfiles slice
    currentPage, \* currentPage
    maxPages,    \* maxPages, after the default is applied
    dret,        \* how the last FindPeople ended: "none", "nil", "error", "panic"
    searches,    \* number of FindPeople calls started
    loadedSeen,  \* history: seenProfiles as loaded at the start of the call
    newCount,    \* newCount of the page processed last
    extracted,   \* history: result pages extracted in this call
    transitions, \* history: page transitions (clickNextPage done) in this call
    returnedBefore, \* history: targets returned by earlier calls that returned nil
    searchFaults,\* history: seen_profiles loads and saves that failed
    \* -- normalizeProfileURL on its own
    rawURL,      \* the rawURL argument
    normalized,  \* what normalizeProfileURL(rawURL) returned (NoResult before the call)
    renormalized,\* what normalizeProfileURL returned for that result
    \* -- RandomDelay on its own
    delayImpl,   \* which RandomDelay is called: "stealth" or "navigation"
    minMs,       \* the minMs argument
    maxMs,       \* the maxMs argument
    delayPc,     \* "call" before the call, then "returned" or "panic"
    delay,       \* the time.Duration returned
    \* -- stealth.MoveMouseHuman on its own
    fromX,       \* the fromX argument
    fromY,       \* the fromY argument
    toX,         \* the toX parameter, as the function body has it now
    toY,         \* the toY parameter, as the function body has it now
    callerTo,    \* history: <<toX, toY>> as passed by the caller
    points,      \* len(points): the curve points sampled
    mousePc,     \* "call", "curve" (points sampled), "correct" (MoveAlong returned), "done"
    issued,      \* history: pointer positions issued to page.Mouse
    lastMove,    \* history: the position issued last
    mouseRet,    \* what MoveMouseHuman returned: "none", "nil", "error"
    \* -- stealth.TypeHuman on its own
    typField,    \* the element typed into: "field", or "email" / "password" at login
    typText,     \* the text argument, a sequence of characters
    typIdx,      \* position of `for _, ch := range text` (1-based)
    typPc,       \* "call", "loop", "wrong", "delete", "char", "done"
    keys,        \* history: the key events delivered to the keyboard, in order
    typFailed,   \* history: a delivery (scroll, click or key event) has failed
    typRet,      \* what TypeHuman returned: "none", "nil", "error"
    \* -- storage.FileStore on its own
    baseDir,     \* f.BaseDir
    files,       \* the files on disk: path -> content (NoFile where there is none)
    fsOp,        \* the last operation: its name, key, data and what it returned
    fsCount,     \* operations carried out
    saved,       \* history: key -> the data of its last Save, NeverSaved after
                 \* a Delete or without a Save, Unknown after a failed Save
    \* -- auth.LoginOrRestoreSession
    authPc,      \* "restore", "creds", "form", "email", "typingEmail", "password",
                 \* "typingPassword", "submit", "await", "done"
    submitted,   \* history: the automation has clicked the submit button of the
                 \* login form
    authRet,     \* what LoginOrRestoreSession returned: "none", "nil", "error"
    session,     \* FileStore content under key linkedin_session: "absent",
                 \* "corrupt", "cookies" (of an earlier login), "fresh" (of this one)
    restore,     \* history: what restoreSession met ("none" before it ran)
    persist,     \* history: how persistSession ended, "none" if it did not run
    \* -- findConnectButton / findMessageButton on their own
    findKind,    \* which locator is called: "connect" or "message"
    dom,         \* the page: the element each strategy's selector matches, and
                 \* the indicators whose selector matches
    findPc,      \* "call" before the call, then "returned"
    located      \* what the locator returned: the error ("" for nil), the index
                 \* of the strategy and the element handle

campaignVars == <<workflow, maxPerDay, today, connStore, msgStore, pc, profiles, i,
                  cstate, mstate, counts, ret, runs, okTodayOf, actedOf, crashes, overnight,
                  faults, runFault, replay>>

locatorVars == <<stepErr, undelivered, challenge>>

pacingVars == <<waitCfg, waitTime>>

discoveryVars == <<seenStore, dpc, seenProfiles, allProfiles, currentPage, maxPages,
                   dret, searches, loadedSeen, newCount, extracted, transitions,
                   returnedBefore, searchFaults>>

normalizeVars == <<rawURL, normalized, renormalized>>

\* the operations examined on their own
delayVars == <<delayImpl, minMs, maxMs, delayPc, delay>>

mouseVars == <<fromX, fromY, toX, toY, callerTo, points, mousePc, issued, lastMove,
               mouseRet>>

typingVars == <<typField, typText, typIdx, typPc, keys, typFailed, typRet>>

storeVars == <<baseDir, files, fsOp, fsCount, saved>>

authVars == <<authPc, submitted, authRet, session, restore, persist>>

findVars == <<findKind, dom, findPc, located>>

unitVars == <<normalizeVars, delayVars, mouseVars, typingVars, storeVars, authVars,
              findVars>>

\* what the campaign actions below leave alone
auxVars == <<locatorVars, cancelled, pacingVars, discoveryVars, unitVars>>

\* what an operation examined on its own leaves alone
runVars == <<campaignVars, locatorVars, cancelled, pacingVars, discoveryVars>>

besideNormalize ==
    <<runVars, delayVars, mouseVars, typingVars, storeVars, authVars, findVars>>

besideDelay ==
    <<runVars, normalizeVars, mouseVars, typingVars, storeVars, authVars, findVars>>

besideMouse ==
    <<runVars, normalizeVars, delayVars, typingVars, storeVars, authVars, findVars>>

besideTyping ==
    <<runVars, normalizeVars, delayVars, mouseVars, storeVars, authVars, findVars>>

besideStore ==
    <<runVars, normalizeVars, delayVars, mouseVars, typingVars, authVars, findVars>>

\* TypeHuman is part of the login: the typing variables are not among these
besideAuth == <<runVars, normalizeVars, delayVars, mouseVars, storeVars, findVars>>

besideFind ==
    <<runVars, normalizeVars, delayVars, mouseVars, typingVars, storeVars, authVars>>

vars == <<campaignVars, auxVars>>

\* ------------------------------------------------------- connection state

\* request.go newConnectionState
newConnectionState(day) ==
    [Date |-> day, RequestsSentToday |-> 0, AttemptedProfiles |-> {},
     SuccessfulSends |-> {}, FailedAttempts |-> {}]

\* A FileStore key: no file, a file holding a marshalled state, or a file
\* left truncated by an interrupted os.WriteFile.
AbsentConn == [status |-> "absent", data |-> newConnectionState(0)]
CorruptConn == [status |-> "corrupt", data |-> newConnectionState(0)]

\* Mutant of loadConnectionState: the stored state is ignored.
loadConnectionState_Fresh(store, loadFails, day) ==
    [err |-> IF loadFails THEN "io" ELSE "", state |-> newConnectionState(day)]

\* request.go loadConnectionState as used by SendRequests: the state the run
\* starts from and the error logged ("io": a load error other than not-found)
loadConnectionState(store, loadFails, day) ==
    IF loadFails THEN [err |-> "io", state |-> newConnectionState(day)]
    ELSE IF store.status = "absent" THEN [err |-> "", state |-> newConnectionState(day)]
    ELSE IF store.status = "corrupt" THEN [err |-> "", state |-> newConnectionState(day)]
    ELSE [err |-> "", state |-> store.data]

\* Mutants of ResetDailyCounter: the counter reset whatever the stored day,
\* and the reset left out.
ResetDailyCounter_Always(state, day) ==
    [state EXCEPT !.Date = day, !.RequestsSentToday = 0]

ResetDailyCounter_Never(state, day) ==
    [state EXCEPT !.Date = day]

\* request.go SendRequests: `if state.Date != today { ... }`
ResetDailyCounter(state, day) ==
    IF state.Date # day
    THEN [state EXCEPT !.Date = day, !.RequestsSentToday = 0]
    ELSE state

\* Mutant of DailyLimitReached: `>` for `>=`.
DailyLimitReached_OffByOne(sent, max) == sent > max

\* request.go SendRequests: `state.RequestsSentToday >= reqCfg.MaxPerDay`
DailyLimitReached(sent, max) == sent >= max

\* request.go SendRequests: `if state.AttemptedProfiles[profileURL]`
AlreadyAttempted(state, p) == p \in state.AttemptedProfiles

\* Mutant of RecordAttempt: a success does not count towards the day.
RecordAttempt_NoIncrement(state, p, failed) ==
    IF failed
    THEN [state EXCEPT !.AttemptedProfiles = @ \cup {p},
                       !.FailedAttempts = @ \cup {p}]
    ELSE [state EXCEPT !.AttemptedProfiles = @ \cup {p},
                       !.SuccessfulSends = @ \cup {p}]

\* Mutant of RecordAttempt: a success is entered in the failed map as well.
RecordAttempt_SuccessAlsoFailed(state, p, failed) ==
    IF failed
    THEN [state EXCEPT !.AttemptedProfiles = @ \cup {p},
                       !.FailedAttempts = @ \cup {p}]
    ELSE [state EXCEPT !.AttemptedProfiles = @ \cup {p},
                       !.RequestsSentToday = @ + 1,
                       !.SuccessfulSends = @ \cup {p},
                       !.FailedAttempts = @ \cup {p}]

\* request.go SendRequests lines 119-139: the outcome recorded in memory
RecordAttempt(state, p, failed) ==
    IF failed
    THEN [state EXCEPT !.AttemptedProfiles = @ \cup {p},
                       !.FailedAttempts = @ \cup {p}]
    ELSE [state EXCEPT !.AttemptedProfiles = @ \cup {p},
                       !.RequestsSentToday = @ + 1,
                       !.SuccessfulSends = @ \cup {p}]

\* request.go saveConnectionState over FileStore.Save: the file afterwards
saveConnectionState(store, state, outcome) ==
    CASE outcome = "ok"   -> [status |-> "ok", data |-> state]
      [] outcome = "fail" -> store
      [] OTHER            -> CorruptConn

\* --------------------------------------------------------- message state

\* followup.go newMessageState
newMessageState(day) ==
    [Date |-> day, MessagesSentToday |-> 0, MessagedProfiles |-> [q \in {} |-> [Success |-> TRUE]]]

\* An interrupted os.WriteFile leaves the file cut short ("corrupt", some
\* bytes of the new content written) or of length zero ("empty", truncated
\* and nothing written yet).
AbsentMsg == [status |-> "absent", data |-> newMessageState(0)]
CorruptMsg == [status |-> "corrupt", data |-> newMessageState(0)]
EmptyMsg == [status |-> "empty", data |-> newMessageState(0)]

\* followup.go loadMessageState lines 656-684 as used by SendFollowUps lines
\* 84-88: the error returned and the state the run starts from. A store error,
\* not-found included, is returned (658-660); a file of length zero gives a
\* fresh state and no error (663-665); a file that json.Unmarshal rejects
\* gives the error "unmarshal state" (668-670). On every error SendFollowUps
\* logs it and starts from a fresh state.
loadMessageState(store, loadFails, day) ==
    IF loadFails THEN [err |-> "io", state |-> newMessageState(day)]
    ELSE IF store.status = "absent"
    THEN [err |-> "notfound", state |-> newMessageState(day)]
    ELSE IF store.status = "empty" THEN [err |-> "", state |-> newMessageState(day)]
    ELSE IF store.status = "corrupt"
    THEN [err |-> "unmarshal", state |-> newMessageState(day)]
    ELSE [err |-> "", state |-> store.data]

\* followup.go SendFollowUps: `if state.Date != today { ... }`
ResetMessageCounter(state, day) ==
    IF state.Date # day
    THEN [state EXCEPT !.Date = day, !.MessagesSentToday = 0]
    ELSE state

\* followup.go SendFollowUps: `state.MessagesSentToday >= cfg.MaxPerDay`
MessageLimitReached(sent, max) == sent >= max

\* followup.go SendFollowUps: `record, exists := ...; exists && record.Success`
AlreadyMessaged(state, p) ==
    p \in DOMAIN state.MessagedProfiles /\ state.MessagedProfiles[p].Success

\* followup.go SendFollowUps lines 163-190
RecordMessage(state, p, failed) ==
    LET m == state.MessagedProfiles
        m2 == [q \in (DOMAIN m) \cup {p} |->
                  IF q = p THEN [Success |-> ~failed] ELSE m[q]]
    IN  IF failed
        THEN [state EXCEPT !.MessagedProfiles = m2]
        ELSE [state EXCEPT !.MessagedProfiles = m2, !.MessagesSentToday = @ + 1]

\* followup.go saveMessageState over FileStore.Save: the file afterwards.
\* A write that fails after os.WriteFile has truncated the file leaves it
\* empty ("emptied") or cut short ("torn").
saveMessageState(store, state, outcome) ==
    CASE outcome = "ok"      -> [status |-> "ok", data |-> state]
      [] outcome = "fail"    -> store
      [] outcome = "emptied" -> EmptyMsg
      [] OTHER               -> CorruptMsg

ZeroCounts == [successCount |-> 0, skipCount |-> 0, notConnectedCount |-> 0, errorCount |-> 0]

\* ------------------------------------------------------ the profile page

\* The controls a profile page can show to findConnectButton: a button whose
\* text or aria-label contains "connect" under one of connectSelectors, and
\* the four elements of unavailableReasons.
Controls == {"Connect", "Following", "Pending", "Message", "Connection"}

\* the sets of controls examined: none, each alone, Connect beside each
\* other, all
ControlSets ==
    {{}, Controls} \cup {{c} : c \in Controls} \cup {{"Connect", c} : c \in Controls}

\* the actions of a step whose failed delivery does not end the step at once:
\* the scroll of humanScrollProfile, the pointer move of MoveToElementHuman,
\* the typing of the note
Tolerated == {"scroll", "move", "type"}

\* what a selector loop of the note modal that clicks the element it finds
\* meets (request.go lines 380-394, 456-472, 489-505): the first element
\* found accepts the click ("ok"), an element refuses the click and one found
\* under a later selector accepts it ("retry"), no selector matches
\* ("missing"), or every element found refuses the click ("noclick")
Lookups == {"ok", "retry", "missing", "noclick"}

\* the loop ends with a click delivered
Clicked(l) == l \in {"ok", "retry"}

\* a click of the loop was refused
Refused(l) == l \in {"retry", "noclick"}

\* what the textarea of the note does (request.go lines 407-419, 434-436):
\* found and focused by its one click ("ok"), not found ("missing"), found
\* and refusing the click ("noclick")
Focuses == {"ok", "missing", "noclick"}

\* A profile page as sendConnectionRequest meets it: Navigate and WaitLoad
\* succeed, isProfileAvailable, the controls shown, the click on the Connect
\* button succeeds, the note modal appears, the 'Add a note' button
\* (addPersonalizedNote lines 374-398), the textarea of the note (lines
\* 400-419, 434-436), the Send button under the selectors of
\* addPersonalizedNote (lines 448-472), the send button under the selectors
\* of clickSendWithoutNote (lines 480-505), and which one (if any) of the
\* other deliveries fails.
\* The site answers the navigation to a profile with its checkpoint page
\* (URL under /checkpoint/ or /challenge/, or a CAPTCHA): the page loads and
\* shows none of the elements isProfileAvailable and findConnectButton look for.
CheckpointPage ==
    [loads |-> TRUE, available |-> FALSE, controls |-> {}, clickOk |-> FALSE,
     modal |-> FALSE, addNote |-> "missing", textarea |-> "missing",
     noteSend |-> "missing",
     plainSend |-> "missing", fails |-> {}, checkpoint |-> TRUE]

\* the step stops looking at the page where it returns: a part of the page it
\* never reaches is left blank
Reached(pg) ==
    LET connect  == pg.loads /\ pg.available /\ "Connect" \in pg.controls
        form     == connect /\ pg.clickOk /\ pg.modal
        typed    == form /\ pg.textarea = "ok"
        sent     == typed /\ "type" \notin pg.fails /\ Clicked(pg.noteSend)
    IN  /\ ~pg.loads => ~pg.available
        /\ ~pg.available => pg.controls = {} /\ pg.fails = {}
        /\ ~connect => ~pg.clickOk /\ "move" \notin pg.fails
        /\ ~pg.clickOk => ~pg.modal
        /\ ~form => /\ pg.addNote = "missing" /\ pg.textarea = "missing"
                    /\ pg.plainSend = "missing"
        /\ ~typed => "type" \notin pg.fails
        /\ (~typed \/ "type" \in pg.fails) => pg.noteSend = "missing"
        /\ sent => pg.plainSend = "missing"

ProfilePages ==
    {pg \in [loads : BOOLEAN, available : BOOLEAN, controls : ControlSets,
             clickOk : BOOLEAN, modal : BOOLEAN, addNote : Lookups,
             textarea : Focuses, noteSend : Lookups, plainSend : Lookups,
             fails : {{}} \cup {{a} : a \in Tolerated}, checkpoint : {FALSE}] :
        Reached(pg)}
    \cup {CheckpointPage}

\* request.go findConnectButton: "" when the button is found, else the error
findConnectButton(pg) ==
    IF "Connect" \in pg.controls THEN ""
    ELSE IF "Following" \in pg.controls THEN "connect unavailable: already following"
    ELSE IF "Pending" \in pg.controls
         THEN "connect unavailable: connection request already pending"
    ELSE IF "Message" \in pg.controls THEN "connect unavailable: already connected"
    ELSE IF "Connection" \in pg.controls THEN "connect unavailable: already connected"
    ELSE "connect button not found - may already be connected or profile restricted"

\* session.go line 436: runConnectionRequests sets UsePersonalizedNotes, with
\* a NoteTemplate
UsePersonalizedNotes == TRUE

\* request.go clickSendWithoutNote lines 478-508: "" or the error
clickSendWithoutNote(pg) ==
    IF Clicked(pg.plainSend) THEN "" ELSE "send button not found"

\* request.go addPersonalizedNote lines 367-475: the 'Add a note' button is
\* clicked if it is there (a refused click is passed over, lines 388-390),
\* the textarea is looked up and clicked, the note is typed with
\* stealth.TypeHuman and the Send button clicked; "" or the error
addPersonalizedNote(pg) ==
    IF pg.textarea = "missing" THEN "note textarea not found"
    ELSE IF pg.textarea = "noclick" THEN "click textarea"
    ELSE IF "type" \in pg.fails THEN "type note"
    ELSE IF ~Clicked(pg.noteSend) THEN "send button not found"
    ELSE ""

\* request.go sendConnectionRequest: the error returned ("" for nil). A
\* failed humanScrollProfile and a failed MoveToElementHuman are logged only
\* (lines 202-204, 214-216); a failed addPersonalizedNote is followed by
\* clickSendWithoutNote (lines 234-240).
sendConnectionRequest(pg) ==
    IF ~pg.loads THEN "navigate to profile"
    ELSE IF ~pg.available THEN "profile unavailable or private"
    ELSE IF findConnectButton(pg) # "" THEN "find connect button: " \o findConnectButton(pg)
    ELSE IF ~pg.clickOk THEN "click connect button"
    ELSE IF ~pg.modal THEN ""
    ELSE IF UsePersonalizedNotes /\ addPersonalizedNote(pg) = "" THEN ""
    ELSE IF clickSendWithoutNote(pg) # "" THEN "send connection"
    ELSE ""

\* the clicks of the note modal on pg whose delivery failed, those passed
\* over by a selector loop (request.go lines 388-390, 466-468, 498-501)
\* included
ModalFailures(pg) ==
    LET button == IF UsePersonalizedNotes /\ Refused(pg.addNote)
                  THEN {"add note"} ELSE {}
        note == IF ~UsePersonalizedNotes THEN {}
                ELSE IF pg.textarea = "missing" THEN {}
                ELSE IF pg.textarea = "noclick" THEN {"focus"}
                ELSE IF "type" \in pg.fails THEN {"type"}
                ELSE IF Refused(pg.noteSend) THEN {"send"}
                ELSE {}
        plain == IF UsePersonalizedNotes /\ addPersonalizedNote(pg) = "" THEN {}
                 ELSE IF Refused(pg.plainSend) THEN {"send without note"}
                 ELSE {}
    IN  button \cup note \cup plain

\* the click, type and scroll actions of sendConnectionRequest on pg whose
\* delivery failed, in the order of the code
DeliveryFailures(pg) ==
    IF ~pg.loads \/ ~pg.available THEN {}
    ELSE (pg.fails \cap {"scroll"}) \cup
         (IF findConnectButton(pg) # "" THEN {}
          ELSE (pg.fails \cap {"move"}) \cup
               (IF ~pg.clickOk THEN {"click"}
                ELSE IF ~pg.modal THEN {}
                ELSE ModalFailures(pg)))

\* ------------------------------------------------------- the pacing wait

\* An int, an int64 and a time.Duration of the program are signed 64-bit
\* integers (a Duration counts nanoseconds). Such an integer is held as its
\* four 16-bit limbs in two's complement, the lowest limb first, and the
\* arithmetic below is the arithmetic of the machine: it wraps around at 2^63.
Limb == 2 ^ 16

Zero64 == <<0, 0, 0, 0>>

\* math.MaxInt64 and math.MinInt64
MaxInt64 == <<Limb - 1, Limb - 1, Limb - 1, Limb \div 2 - 1>>

MinInt64 == <<0, 0, 0, Limb \div 2>>

\* a + b
Add64(a, b) ==
    LET s1 == a[1] + b[1]
        s2 == a[2] + b[2] + s1 \div Limb
        s3 == a[3] + b[3] + s2 \div Limb
        s4 == a[4] + b[4] + s3 \div Limb
    IN  <<s1 % Limb, s2 % Limb, s3 % Limb, s4 % Limb>>

\* -a
Neg64(a) ==
    Add64(<<Limb - 1 - a[1], Limb - 1 - a[2], Limb - 1 - a[3], Limb - 1 - a[4]>>,
          <<1, 0, 0, 0>>)

\* a - b
Sub64(a, b) == Add64(a, Neg64(b))

\* the 64-bit integer of a number n, -2^31 < n < 2^31
Int64(n) ==
    IF n >= 0 THEN <<n % Limb, n \div Limb, 0, 0>>
    ELSE Neg64(<<(-n) % Limb, (-n) \div Limb, 0, 0>>)

\* the number of a 64-bit integer a, 0 <= a < 2^31
Number(a) == a[1] + Limb * a[2]

\* a < 0
IsNegative(a) == a[4] >= Limb \div 2

\* a < b
Less64(a, b) ==
    IF IsNegative(a) # IsNegative(b) THEN IsNegative(a)
    ELSE \E k \in 1..4 : a[k] < b[k] /\ \A j \in (k + 1)..4 : a[j] = b[j]

\* a <= b
Leq64(a, b) == ~Less64(b, a)

\* a * m for a number m, 0 <= m < 2^15
TimesSmall(a, m) ==
    LET p1 == a[1] * m
        p2 == a[2] * m + p1 \div Limb
        p3 == a[3] * m + p2 \div Limb
        p4 == a[4] * m + p3 \div Limb
    IN  <<p1 % Limb, p2 % Limb, p3 % Limb, p4 % Limb>>

\* a * b for a number b, 0 <= b < 2^31, from the three 10-bit parts of b
Times(a, b) ==
    Add64(Add64(TimesSmall(TimesSmall(TimesSmall(a, b \div (1024 * 1024)), 1024), 1024),
                TimesSmall(TimesSmall(a, (b \div 1024) % 1024), 1024)),
          TimesSmall(a, b % 1024))

\* a / b for the unsigned value of the limbs of a and a number b, 0 < b < 2^15
Div64(a, b) ==
    LET r4 == a[4] % b
        r3 == (r4 * Limb + a[3]) % b
        r2 == (r3 * Limb + a[2]) % b
    IN  <<(r2 * Limb + a[1]) \div b, (r3 * Limb + a[2]) \div b,
          (r4 * Limb + a[3]) \div b, a[4] \div b>>

\* time.Millisecond and time.Second, in nanoseconds
Millisecond == 1000000

Second == 1000 * Millisecond

\* the largest time.Duration
MaxDuration == MaxInt64

\* the whole milliseconds in d nanoseconds, d taken as unsigned
Milliseconds(d) == Div64(Div64(d, 1000), 1000)

EnumeratedSpan == 100000   \* widest range of milliseconds drawn from

\* The values r.Intn(span) can give, and the remainders of the clock by span:
\* every number of [0, span); none for span <= 0, where rand.Intn panics.
\* Defined for spans up to EnumeratedSpan.
Draws(span) ==
    CASE Leq64(span, Zero64) -> {}
      [] Less64(Zero64, span) /\ Leq64(span, Int64(EnumeratedSpan)) ->
            {Int64(k) : k \in 0..(Number(span) - 1)}

\* timing.go lines 13-15, patterns.go lines 154-156
ClampedMin(lo) == IF IsNegative(lo) THEN Zero64 ELSE lo

\* timing.go lines 16-18, patterns.go lines 157-159
ClampedMax(lo, hi) == IF Less64(hi, ClampedMin(lo)) THEN ClampedMin(lo) ELSE hi

\* maxMs-minMs+1 of timing.go line 20 and patterns.go line 161, an int
DelaySpan(lo, hi) == Add64(Sub64(ClampedMax(lo, hi), ClampedMin(lo)), Int64(1))

\* timing.go stealth.RandomDelay lines 12-22: the durations it can return;
\* none when maxMs-minMs+1 wraps around to a negative int and r.Intn panics.
\* Defined for ranges up to EnumeratedSpan wide.
RandomDelay(lo, hi) ==
    {Times(Add64(k, ClampedMin(lo)), Millisecond) : k \in Draws(DelaySpan(lo, hi))}

\* patterns.go navigation.RandomDelay lines 153-162: minMs plus the clock
\* (time.Now().UnixNano(), any number of nanoseconds since 1970) modulo
\* maxMs-minMs+1. Defined for a modulus in 1..EnumeratedSpan.
NavigationRandomDelay(lo, hi) ==
    CASE Less64(Zero64, DelaySpan(lo, hi)) ->
            {Times(Add64(ClampedMin(lo), k), Millisecond) :
                k \in Draws(DelaySpan(lo, hi))}

\* The calls of RandomDelay followed here: those whose range, after the
\* clamps, is at most EnumeratedSpan milliseconds wide, and the calls of
\* stealth.RandomDelay whose range has wrapped around (impl is "stealth" or
\* "navigation").
Examined(impl, lo, hi) ==
    /\ Leq64(DelaySpan(lo, hi), Int64(EnumeratedSpan))
    /\ impl = "navigation" => Less64(Zero64, DelaySpan(lo, hi))

\* request.go line 149 and followup.go line 200: the minimum wait
PacingFloor(wf) == Times(Int64(Second), IF wf = "connect" THEN 5 ELSE 10)

\* request.go lines 148-151 and followup.go lines 199-202: the configured
\* wait, converted with time.Duration(ms) * time.Millisecond, raised to the
\* floor
FlooredWait(wf, cfgMs) ==
    LET w == Times(cfgMs, Millisecond)
    IN  IF Less64(w, PacingFloor(wf)) THEN PacingFloor(wf) ELSE w

\* request.go lines 148-154 and followup.go lines 199-205: the waitTime
\* handed to time.Sleep, rnd being what stealth.RandomDelay(2000, 5000) returned
PacingWait(wf, cfgMs, rnd) == Add64(FlooredWait(wf, cfgMs), rnd)

\* 9223372036854: the largest number of milliseconds whose conversion to
\* time.Duration does not wrap
MaxWaitMs == Milliseconds(MaxDuration)

\* 18446744073710: the smallest number of milliseconds whose conversion wraps
\* around to a positive time.Duration
WrappingWaitMs ==
    Add64(Milliseconds(<<Limb - 1, Limb - 1, Limb - 1, Limb - 1>>), Int64(1))

\* the configured waits examined
WaitConfigs ==
    {Int64(n) : n \in {-1, 0, 1, 4999, 5000, 5001, 8000, 9999, 10000, 15000, 40000}}
    \cup {Sub64(MaxWaitMs, Int64(5001)), Sub64(MaxWaitMs, Int64(5000)),
          Sub64(MaxWaitMs, Int64(4999)), MaxWaitMs, Add64(MaxWaitMs, Int64(1)),
          WrappingWaitMs, MaxInt64}

\* ------------------------------------------------------ search.FindPeople

\* A URL string, as its parts: the host ("" for a relative URL), the path
\* segments, whether the path ends with "/", whether a query follows the path,
\* whether a fragment ends the string. "/in/A/?x=1" is [host |-> "",
\* segs |-> <<"in", "A">>, slash |-> TRUE, query |-> TRUE, frag |-> FALSE];
\* the empty string is EmptyURL.
EmptyURL ==
    [host |-> "", segs |-> << >>, slash |-> FALSE, query |-> FALSE, frag |-> FALSE]

LinkedInHosts == {"www.linkedin.com", "uk.linkedin.com"}

\* "https://www.linkedin.com/in/" + profileID
ProfileURL(id) ==
    [host |-> "www.linkedin.com", segs |-> <<"in", id>>, slash |-> FALSE,
     query |-> FALSE, frag |-> FALSE]

\* the path contains the given segment followed by "/"
ContainsSegment(u, seg) ==
    \E k \in 1..Len(u.segs) : u.segs[k] = seg /\ (k < Len(u.segs) \/ u.slash)

\* a member-card reference: a path element that carries the text
\* "urn:li:fs_miniProfile:"
MiniProfileRef == "urn:li:fs_miniProfile:X"

\* the string contains "urn:li:fs_miniProfile:"
ContainsMiniProfile(u) == \E k \in 1..Len(u.segs) : u.segs[k] = MiniProfileRef

\* patterns.go isValidProfileURL lines 494-518: "/in/" is required, and each
\* of the seven exclude patterns of lines 501-509 rejects the string
isValidProfileURL(u) ==
    /\ ContainsSegment(u, "in")
    /\ \A x \in {"company", "school", "groups", "events", "jobs", "posts"} :
          ~ContainsSegment(u, x)
    /\ ~ContainsMiniProfile(u)

\* index of the first "in" segment that has a segment after it
FirstIn(segs) == CHOOSE k \in 1..Len(segs) :
    /\ segs[k] = "in" /\ k < Len(segs)
    /\ \A j \in 1..(k - 1) : segs[j] # "in"

\* patterns.go normalizeProfileURL. A relative "/in/..." string is prefixed
\* with the host and cut at its first "?" only (lines 534-539): its trailing
\* slash and sub-path stay, and so does its fragment unless a query precedes
\* it. An absolute LinkedIn URL is reduced to the segment after "/in/".
normalizeProfileURL(u) ==
    IF u = EmptyURL THEN EmptyURL
    ELSE IF u.host \notin LinkedInHosts
    THEN IF u.host = "" /\ Len(u.segs) > 0 /\ u.segs[1] = "in"
            /\ (Len(u.segs) > 1 \/ u.slash)
         THEN [host |-> "www.linkedin.com", segs |-> u.segs, slash |-> u.slash,
               query |-> FALSE, frag |-> (~u.query /\ u.frag)]
         ELSE EmptyURL
    ELSE IF \E k \in 1..Len(u.segs) : u.segs[k] = "in" /\ k < Len(u.segs)
    THEN ProfileURL(u.segs[FirstIn(u.segs) + 1])
    ELSE [u EXCEPT !.query = FALSE, !.frag = FALSE]

\* the hrefs a result page can carry
RawLinks ==
    {ProfileURL("A"),
     [host |-> "www.linkedin.com", segs |-> <<"in", "A">>, slash |-> TRUE,
      query |-> TRUE, frag |-> FALSE],
     [host |-> "", segs |-> <<"in", "A">>, slash |-> TRUE, query |-> FALSE,
      frag |-> FALSE],
     ProfileURL("B"),
     [host |-> "uk.linkedin.com", segs |-> <<"in", "B", "details">>, slash |-> FALSE,
      query |-> TRUE, frag |-> FALSE],
     [host |-> "example.com", segs |-> <<"in", "B">>, slash |-> FALSE, query |-> FALSE,
      frag |-> FALSE],
     [host |-> "www.linkedin.com", segs |-> <<"company", "X", "in", "B">>,
      slash |-> FALSE, query |-> FALSE, frag |-> FALSE],
     [host |-> "www.linkedin.com", segs |-> <<"in", MiniProfileRef>>,
      slash |-> FALSE, query |-> FALSE, frag |-> FALSE]}

MaxLinks == 2      \* most hrefs matched on one result page

RECURSIVE LinkListsUpTo(_)
LinkListsUpTo(n) ==
    IF n = 0 THEN {<< >>}
    ELSE LET shorter == LinkListsUpTo(n - 1)
         IN  shorter \cup {Append(s, u) : s \in {x \in shorter : Len(x) = n - 1},
                                          u \in RawLinks}

\* what the matched elements of a result page can be
PageContents == LinkListsUpTo(MaxLinks)

Range(s) == {s[k] : k \in 1..Len(s)}

\* patterns.go extractProfileURLs lines 469-478: normalized, empty dropped,
\* first occurrence kept
RECURSIVE UniqueNormalized(_, _)
UniqueNormalized(links, acc) ==
    IF links = << >> THEN acc
    ELSE LET n == normalizeProfileURL(Head(links))
         IN  IF n # EmptyURL /\ n \notin Range(acc)
             THEN UniqueNormalized(Tail(links), Append(acc, n))
             ELSE UniqueNormalized(Tail(links), acc)

\* patterns.go extractProfileURLs: the hrefs that pass isValidProfileURL; none
\* is the error "no profile links found with any selector"
extractProfileURLs(links) ==
    LET valid == SelectSeq(links, isValidProfileURL)
    IN  IF valid = << >> THEN [err |-> "no profile links", result |-> << >>]
        ELSE [err |-> "", result |-> UniqueNormalized(valid, << >>)]

\* patterns.go FindPeople lines 290-307: the de-duplication of one page
RECURSIVE CollectNew(_, _, _, _)
CollectNew(found, seen, all, n) ==
    IF found = << >> THEN [seen |-> seen, all |-> all, newCount |-> n]
    ELSE LET u == normalizeProfileURL(Head(found))
         IN  IF u = EmptyURL \/ u \in seen
             THEN CollectNew(Tail(found), seen, all, n)
             ELSE CollectNew(Tail(found), seen \cup {u}, Append(all, u), n + 1)

\* Mutant of FailedResult: the targets collected so far are returned.
FailedResult_Partial(all) == all

\* patterns.go FindPeople lines 282-286: `return nil, fmt.Errorf(...)`, the
\* list returned beside the error
FailedResult(all) == << >>

\* patterns.go FindPeople lines 276-279: `if maxPages == 0 { maxPages = 10 }`
DefaultMaxPages == 10

EffectiveMaxPages(mp) == IF mp = 0 THEN DefaultMaxPages ELSE mp

MaxPagesCfg == 2   \* largest SearchParams.MaxPages given
MaxSearches == 2   \* FindPeople calls in one behaviour

AbsentSeen == [status |-> "absent", data |-> {}]
CorruptSeen == [status |-> "corrupt", data |-> {}]

\* patterns.go loadSeenProfiles as used by FindPeople: a load error and an
\* unparsable file both give an empty map
loadSeenProfiles(store, loadFails) ==
    IF loadFails THEN [err |-> "io", seen |-> {}]
    ELSE IF store.status = "ok" THEN [err |-> "", seen |-> store.data]
    ELSE [err |-> "", seen |-> {}]

\* patterns.go saveSeenProfiles over FileStore.Save
saveSeenProfiles(store, seen, outcome) ==
    CASE outcome = "ok"   -> [status |-> "ok", data |-> seen]
      [] outcome = "fail" -> store
      [] OTHER            -> CorruptSeen

\* ------------------------------------------- normalizeProfileURL on its own

\* no call made yet: a value no call returns
NoResult ==
    [host |-> "none", segs |-> << >>, slash |-> FALSE, query |-> FALSE, frag |-> FALSE]

\* The ways a page can refer to the profile id: absolute on a LinkedIn host or
\* relative, with or without a sub-path, a trailing slash, a query string, a
\* fragment.
ProfileRefs(id) ==
    {[host |-> h, segs |-> <<"in", id>> \o sub, slash |-> sl, query |-> q, frag |-> f] :
        h \in LinkedInHosts \cup {""}, sub \in {<< >>, <<"details">>},
        sl \in BOOLEAN, q \in BOOLEAN, f \in BOOLEAN}

\* the strings handed to normalizeProfileURL
URLInputs ==
    UNION {ProfileRefs(id) : id \in Targets}
      \cup {EmptyURL,
            [host |-> "example.com", segs |-> <<"in", "A">>, slash |-> FALSE,
             query |-> FALSE, frag |-> FALSE],
            [host |-> "www.linkedin.com", segs |-> <<"feed">>, slash |-> TRUE,
             query |-> TRUE, frag |-> TRUE],
            [host |-> "", segs |-> <<"feed">>, slash |-> FALSE, query |-> FALSE,
             frag |-> FALSE]}

NormalizeIdle ==
    rawURL = EmptyURL /\ normalized = NoResult /\ renormalized = NoResult

\* ---------------------------------------------------- RandomDelay on its own

\* the minMs and maxMs handed to RandomDelay
DelayBounds ==
    {MinInt64, Int64(-1), Int64(0), Int64(1), Int64(2000), Int64(5000),
     Sub64(MaxWaitMs, Int64(5000)), MaxWaitMs, Add64(MaxWaitMs, Int64(1)),
     Sub64(MaxInt64, Int64(1)), MaxInt64}

DelayIdle ==
    /\ delayImpl = "stealth" /\ minMs = Zero64 /\ maxMs = Zero64
    /\ delayPc = "returned" /\ delay = Zero64

\* ------------------------------------------ stealth.MoveMouseHuman on its own

\* the largest k in lo..hi with k*k <= n, given lo*lo <= n < (hi+1)*(hi+1)
RECURSIVE RootBetween(_, _, _)
RootBetween(n, lo, hi) ==
    IF lo = hi THEN lo
    ELSE LET mid == (lo + hi + 1) \div 2
         IN  IF mid * mid <= n THEN RootBetween(n, mid, hi)
             ELSE RootBetween(n, lo, mid - 1)

\* int(math.Sqrt(n)) for 0 <= n < 2^30
ISqrt(n) == RootBetween(n, 0, 2 ^ 15 - 1)

\* dx*dx + dy*dy, the square of math.Hypot(dx, dy) (mouse.go lines 22-24)
Dist2(fx, fy, tx, ty) == (tx - fx) * (tx - fx) + (ty - fy) * (ty - fy)

\* mouse.go line 26: dist < 2
Direct(d2) == d2 < 4

MinSteps == 25

MaxSteps == 220

\* Mutant of SampleSteps: the step count is not clamped.
SampleSteps_Unclamped(d2) == ISqrt(d2 \div 64) + 20

\* mouse.go lines 31-37: steps := int(dist/8) + 20, clamped to [25, 220];
\* int(dist/8) is the integer square root of dist*dist/64
SampleSteps(d2) ==
    LET raw == ISqrt(d2 \div 64) + 20
    IN  IF raw < MinSteps THEN MinSteps
        ELSE IF raw > MaxSteps THEN MaxSteps
        ELSE raw

\* mouse.go lines 48-49: int(randRange(r, -8, 14)), truncated towards zero.
\* randRange is -8 + r.Float64()*22 with r.Float64() in [0, 1): -8 itself
\* comes out when the draw is 0, 14 never does.
OvershootOffsets == (-8)..13

\* a pointer position issued to page.Mouse: the exact point of a MoveTo of
\* MoveMouseHuman, or a jittered curve point replayed by MoveAlong
ExactMove(x, y) == [kind |-> "exact", x |-> x, y |-> y]

CurveMove == [kind |-> "curve", x |-> 0, y |-> 0]

NoMove == [kind |-> "none", x |-> 0, y |-> 0]

\* the coordinates handed to MoveMouseHuman
FromXs == {0, 1600}

ToXs == {0, 1, 2, 47, 48, 400, 1599, 1600, 1608}

ToYs == {0, 1, 2, 300}

MouseIdle ==
    /\ fromX = 0 /\ fromY = 0 /\ toX = 0 /\ toY = 0 /\ callerTo = <<0, 0>>
    /\ points = 0 /\ mousePc = "done" /\ issued = 0 /\ lastMove = NoMove
    /\ mouseRet = "none"

\* ----------------------------------------------- stealth.TypeHuman on its own

MaxText == 3       \* longest text typed

\* the characters of the texts typed: a lower-case letter and another rune
TextChars == {"a", "Q"}

RECURSIVE TextsUpTo(_)
TextsUpTo(n) ==
    IF n = 0 THEN {<< >>}
    ELSE LET shorter == TextsUpTo(n - 1)
         IN  shorter \cup {Append(t, c) : t \in {x \in shorter : Len(x) = n - 1},
                                          c \in TextChars}

Texts == TextsUpTo(MaxText)

\* typing.go randomNearbyRune: the runes it can return for ch
randomNearbyRune(ch) ==
    IF ch \in {"a"} THEN {"a", "s", "d", "f", "j", "k", "l", "e", "i", "o"}
    ELSE {"x"}

\* a key event: kb.Type of a rune, or kb.Press(input.Backspace); `typo` tells
\* the rune of line 36 from the rune of line 46
TypedKey(c, typo) == [key |-> c, typo |-> typo]

\* Mutant of CorrectionKey: the typo is followed by a space.
CorrectionKey_Space == [key |-> "Space", typo |-> FALSE]

\* typing.go line 40: input.Backspace
CorrectionKey == [key |-> "Backspace", typo |-> FALSE]

\* Mutant of AfterDelivery: a failed delivery does not end the call.
AfterDelivery_Continue(ok, next) == next

\* typing.go lines 23-48, `if err := ...; err != nil { return err }`: where
\* TypeHuman is after a delivery
AfterDelivery(ok, next) == IF ok THEN next ELSE "done"

TypingIdle ==
    /\ typField = "none" /\ typText = << >> /\ typIdx = 1 /\ typPc = "done"
    /\ keys = << >> /\ typFailed = FALSE /\ typRet = "none"

\* ------------------------------------------------ storage.FileStore on its own

MaxOps == 3        \* FileStore operations in one behaviour

\* A key is a string, held as its elements between "/": "connection_state"
\* is <<"connection_state">>, "backup/connection_state" is
\* <<"backup", "connection_state">>, "connection_state/" ends with an empty
\* element, "" is << >>.
EmptyKey == << >>

StoreKeys ==
    {EmptyKey, <<"connection_state">>, <<"message_state">>,
     <<"backup", "connection_state">>, <<"connection_state", "">>}

\* the data saved
StoreData == {"d1", "d2"}

\* filepath.Base: trailing slashes dropped, then the last element; "." for
\* the empty string and "/" for a string of slashes only
RECURSIVE Base(_)
Base(key) ==
    IF key = << >> THEN "."
    ELSE IF key[Len(key)] = ""
         THEN IF Len(key) = 1 THEN "/" ELSE Base(SubSeq(key, 1, Len(key) - 1))
         ELSE key[Len(key)]

\* typing.go (package storage) pathFor: filepath.Join(f.BaseDir, safe+".json"),
\* as the pair of the directory and the file name
pathFor(dir, key) == <<dir, Base(key) \o ".json">>

\* the BaseDir left by ensureDir
ensureDir(dir) == IF dir = "" THEN "data" ELSE dir

BaseDirs == {"", "data"}

StorePaths == {pathFor(d, k) : d \in BaseDirs, k \in StoreKeys}

NoFile == "<none>"

\* what os.WriteFile left of a file when it failed after truncating it
TornFile == "<torn>"

NotFound == "state not found"

NeverSaved == "<never>"

Unknown == "<unknown>"

\* an operation and what it returned: err is "" for nil; data is the data
\* given to Save or returned by Load
StoreOp(op, key, data, err) == [op |-> op, key |-> key, data |-> data, err |-> err]

\* what the operating system does with the call of a Load or a Delete: "ok"
\* when it serves it, "nodir" when os.MkdirAll of ensureDir fails, "io" when
\* os.ReadFile or os.Remove fails otherwise than with os.ErrNotExist
LoadOutcomes == {"ok", "nodir", "io"}

DeleteOutcomes == {"ok", "io"}

\* FileStore.Load lines 137-152 on the files fs: the error and the data.
\* ensureDir comes first (138-140), before the key is looked at (141-143);
\* a failed os.ReadFile gives ErrNotFound for a missing file (146-148) and
\* its own error otherwise (149).
Load(dir, fs, key, outcome) ==
    IF outcome = "nodir" THEN [err |-> "ensure dir", data |-> ""]
    ELSE IF key = EmptyKey THEN [err |-> "empty key", data |-> ""]
    ELSE IF outcome = "io" THEN [err |-> "read", data |-> ""]
    ELSE IF fs[pathFor(ensureDir(dir), key)] = NoFile
    THEN [err |-> NotFound, data |-> ""]
    ELSE [err |-> "", data |-> fs[pathFor(ensureDir(dir), key)]]

\* what the operating system does with the call of a Save: os.MkdirAll of
\* ensureDir fails ("nodir"), or os.WriteFile succeeds ("ok"), fails before
\* it has opened the file ("fail"), or fails after it has truncated it
\* ("torn")
SaveOutcomes == {"ok", "nodir", "fail", "torn"}

\* FileStore.Save lines 127-135: the error returned; ensureDir comes first
\* (128-130), before the key is looked at (131-133)
SaveErr(key, outcome) ==
    IF outcome = "nodir" THEN "ensure dir"
    ELSE IF key = EmptyKey THEN "empty key"
    ELSE IF outcome = "ok" THEN "" ELSE "write"

\* FileStore.Save lines 127-135 on the files fs: the files afterwards
Save(dir, fs, key, data, outcome) ==
    IF key = EmptyKey \/ outcome = "nodir" THEN fs
    ELSE CASE outcome = "ok"   -> [fs EXCEPT ![pathFor(ensureDir(dir), key)] = data]
           [] outcome = "fail" -> fs
           [] OTHER            -> [fs EXCEPT ![pathFor(ensureDir(dir), key)] = TornFile]

\* FileStore.Delete lines 154-165: the error returned. A missing file is not
\* an error (157-159); another failure of os.Remove is returned (160).
DeleteErr(key, outcome) ==
    IF key = EmptyKey THEN "empty key"
    ELSE IF outcome = "io" THEN "remove"
    ELSE ""

\* FileStore.Delete lines 154-165 on the files fs: the files afterwards;
\* BaseDir is used as it is, ensureDir is not called. When os.Remove fails
\* the file stays.
Delete(dir, fs, key, outcome) ==
    IF DeleteErr(key, outcome) # "" THEN fs
    ELSE [fs EXCEPT ![pathFor(dir, key)] = NoFile]

StoreIdle ==
    /\ baseDir = "data"
    /\ files = [p \in StorePaths |-> NoFile]
    /\ fsOp = StoreOp("none", EmptyKey, "", "")
    /\ fsCount = 0
    /\ saved = [k \in StoreKeys |-> NeverSaved]

\* ------------------------------------------------ auth.LoginOrRestoreSession

\* LINKEDIN_EMAIL and LINKEDIN_PASSWORD of the environment, as the texts typed
EnvEmail == <<"a", "Q">>

EnvPassword == <<"Q", "a">>

\* What restoreSession can meet: the stored session restored; the key absent;
\* the load failing otherwise; the file unparsable; the cookies not injected;
\* the navigation to the feed failing; the cookies stale (bounced to the
\* login page, no feed indicator before the timeout); a checkpoint page.
RestoreOutcomes ==
    {"restored", "absent", "loadFailed", "unparseable", "injectFailed", "navFailed",
     "stale", "checkpoint"}

\* the outcomes the stored session allows
RestorePossible(sess, outcome) ==
    CASE outcome = "loadFailed"  -> TRUE
      [] outcome = "absent"      -> sess = "absent"
      [] outcome = "unparseable" -> sess = "corrupt"
      [] OTHER                   -> sess = "cookies"

\* session.go restoreSession: (ok, err); err is "" for nil, "checkpoint" for
\* ErrCheckpoint, "other" for the navigation error and the timeout of
\* waitForFeedOrCheckpoint
restoreSession(outcome) ==
    [ok  |-> outcome = "restored",
     err |-> CASE outcome = "checkpoint"            -> "checkpoint"
               [] outcome \in {"navFailed", "stale"} -> "other"
               [] OTHER                             -> ""]

\* Mutant of AfterRestore: every error of restoreSession is returned.
AfterRestore_AnyErrorFails(r) ==
    IF r.err # "" THEN "error" ELSE IF r.ok THEN "nil" ELSE "login"

\* login.go lines 29-39: what LoginOrRestoreSession does with the result of
\* restoreSession: return the checkpoint error, return nil, or go on to login
AfterRestore(r) ==
    IF r.err = "checkpoint" THEN "error" ELSE IF r.ok THEN "nil" ELSE "login"

AuthIdle ==
    /\ authPc = "done" /\ submitted = FALSE /\ authRet = "none"
    /\ session = "absent" /\ restore = "none" /\ persist = "none"

\* ------------------------------- findConnectButton and findMessageButton

\* Texts are sequences of characters. strings.ToLower on the letters that
\* occur in them:
Lower(ch) ==
    CASE ch = "C" -> "c" [] ch = "O" -> "o" [] ch = "N" -> "n" [] ch = "E" -> "e"
      [] ch = "T" -> "t" [] ch = "M" -> "m" [] ch = "S" -> "s" [] ch = "A" -> "a"
      [] ch = "G" -> "g" [] ch = "I" -> "i" [] ch = "R" -> "r"
      [] OTHER -> ch

ToLower(str) == [k \in 1..Len(str) |-> Lower(str[k])]

\* strings.Contains
Contains(str, sub) ==
    \E k \in 0..(Len(str) - Len(sub)) : SubSeq(str, k + 1, k + Len(sub)) = sub

\* request.go lines 285-300 and followup.go lines 428-445: the strategies, in
\* list order
connectSelectors ==
    <<"button[aria-label*='Invite'][aria-label*='connect']",
      "button[aria-label^='Invite']",
      "button:has-text('Connect')",
      "button.pvs-profile-actions__action:has-text('Connect')",
      "button.artdeco-button--secondary:has-text('Connect')",
      "button.pvs-profile-actions__action",
      "button[aria-label*='Connect']">>

messageSelectors ==
    <<"button[aria-label*='Message']",
      "a[aria-label*='Message']",
      "button:has-text('Message')",
      "a:has-text('Message')",
      "button.pvs-profile-actions__action:has-text('Message')",
      "button.artdeco-button:has-text('Message')",
      "div.pvs-profile-actions button:has-text('Message')",
      "button[aria-label^='Message']",
      "a[href*='/messaging/thread']">>

\* request.go lines 325-333 and followup.go lines 466-473: the reasons of the
\* indicators, in list order
unavailableReasons ==
    <<"already following", "connection request already pending",
      "already connected", "already connected">>

restrictedReasons ==
    <<"not yet connected", "connection pending", "messaging restricted">>

\* An element as the locators read it: its text, and its aria-label when it
\* has one.
NoElement == [tag |-> "none", text |-> << >>, hasAria |-> FALSE, aria |-> << >>]

Elements ==
    {[tag |-> "button", text |-> <<"C", "o", "n", "n", "e", "c", "t">>,
      hasAria |-> FALSE, aria |-> << >>],
     [tag |-> "button", text |-> << >>, hasAria |-> TRUE,
      aria |-> <<"T", "O", " ", "C", "O", "N", "N", "E", "C", "T">>],
     [tag |-> "button", text |-> <<"M", "o", "r", "e">>, hasAria |-> TRUE,
      aria |-> <<"M", "o", "r", "e">>],
     [tag |-> "button", text |-> <<"M", "e", "s", "s", "a", "g", "e">>,
      hasAria |-> FALSE, aria |-> << >>],
     [tag |-> "a", text |-> << >>, hasAria |-> TRUE,
      aria |-> <<"M", "E", "S", "S", "A", "G", "E", " ", "A">>]}

MaxMatches == 2    \* most strategies whose selector matches an element

\* what the n strategies can match on a page: per strategy the first element
\* its selector matches or none, at most m of them matching
RECURSIVE MatchLists(_, _)
MatchLists(n, m) ==
    IF n = 0 THEN {<< >>}
    ELSE {Append(s, NoElement) : s \in MatchLists(n - 1, m)}
         \cup (IF m = 0 THEN {}
               ELSE {Append(s, e) : s \in MatchLists(n - 1, m - 1), e \in Elements})

\* the pages a locator with n strategies and r indicators can meet
Doms(n, r) == [matches : MatchLists(n, MaxMatches), indicators : SUBSET (1..r)]

\* Mutant of Validated: the structural match is taken as it is.
Validated_StructuralOnly(el, keyword) == TRUE

\* request.go lines 309-321, followup.go lines 454-462: the text or the
\* aria-label of the element contains the keyword, in lower case
Validated(el, keyword) ==
    \/ Contains(ToLower(el.text), keyword)
    \/ el.hasAria /\ Contains(ToLower(el.aria), keyword)

\* request.go lines 302-322: `for _, sel := range connectSelectors`, from the
\* k-th strategy on: the index of the strategy that returns, 0 if none does
RECURSIVE FirstValidated(_, _, _)
FirstValidated(matches, keyword, k) ==
    IF k > Len(matches) THEN 0
    ELSE IF matches[k] # NoElement /\ Validated(matches[k], keyword) THEN k
    ELSE FirstValidated(matches, keyword, k + 1)

\* Mutant of FirstIndicator: the indicators are consulted from the last one.
RECURSIVE FirstIndicator_Reversed(_, _, _)
FirstIndicator_Reversed(indicators, r, k) ==
    IF k > r THEN 0
    ELSE IF (r + 1 - k) \in indicators THEN r + 1 - k
    ELSE FirstIndicator_Reversed(indicators, r, k + 1)

\* request.go lines 335-339: `for _, check := range unavailableReasons`, from
\* the k-th indicator on: the index of the first one that matches, 0 if none
RECURSIVE FirstIndicator(_, _, _)
FirstIndicator(indicators, r, k) ==
    IF k > r THEN 0
    ELSE IF k \in indicators THEN k
    ELSE FirstIndicator(indicators, r, k + 1)

\* the body shared by findConnectButton and findMessageButton
findButton(page, keyword, reasons, unavailable, notFound) ==
    LET sel == FirstValidated(page.matches, keyword, 1)
        ind == FirstIndicator(page.indicators, Len(reasons), 1)
    IN  IF sel # 0 THEN [err |-> "", sel |-> sel, btn |-> page.matches[sel]]
        ELSE IF ind # 0
        THEN [err |-> unavailable \o reasons[ind], sel |-> 0, btn |-> NoElement]
        ELSE [err |-> notFound, sel |-> 0, btn |-> NoElement]

\* request.go findConnectButton, on the elements of the page
findConnectButtonIn(page) ==
    findButton(page, <<"c", "o", "n", "n", "e", "c", "t">>, unavailableReasons,
               "connect unavailable: ",
               "connect button not found - may already be connected or profile restricted")

\* followup.go findMessageButton
findMessageButton(page) ==
    findButton(page, <<"m", "e", "s", "s", "a", "g", "e">>, restrictedReasons,
               "messaging unavailable: ", "message button not found")

NotCalled == [err |-> "none", sel |-> 0, btn |-> NoElement]

FindIdle ==
    /\ findKind = "connect"
    /\ dom = [matches |-> << >>, indicators |-> {}]
    /\ findPc = "returned"
    /\ located = NotCalled

\* ------------------------------------------------- initial auxiliary state
UnitIdle ==
    /\ NormalizeIdle /\ DelayIdle /\ MouseIdle /\ TypingIdle /\ StoreIdle /\ AuthIdle
    /\ FindIdle

LocatorIdle == stepErr = "" /\ undelivered = {} /\ challenge = 0

PacingIdle == waitCfg = Zero64 /\ waitTime = Zero64

DiscoveryIdle ==
    /\ seenStore = AbsentSeen
    /\ dpc = "idle"
    /\ seenProfiles = {}
    /\ allProfiles = << >>
    /\ currentPage = 1
    /\ maxPages = 0
    /\ dret = "none"
    /\ searches = 0
    /\ loadedSeen = {}
    /\ newCount = 0
    /\ extracted = 0
    /\ transitions = 0
    /\ returnedBefore = {}
    /\ searchFaults = 0

\* ------------------------------------------------------------------ Init
\* the campaign before its first run
CampaignInit ==
    /\ workflow = "connect"
    /\ maxPerDay \in 0..MaxQuota
    /\ today = 1
    /\ connStore = AbsentConn
    /\ msgStore = AbsentMsg
    /\ pc = "idle"
    /\ profiles = << >>
    /\ i = 1
    /\ cstate = newConnectionState(0)
    /\ mstate = newMessageState(0)
    /\ counts = ZeroCounts
    /\ ret = "none"
    /\ runs = 0
    /\ okTodayOf = [w \in Workflows |-> 0]
    /\ actedOf = [w \in Workflows |-> {}]
    /\ crashes = 0
    /\ overnight = FALSE
    /\ faults = 0
    /\ runFault = FALSE
    /\ replay = FALSE

\* nothing else has happened yet
AuxIdle == LocatorIdle /\ cancelled = FALSE /\ PacingIdle /\ DiscoveryIdle

Init == CampaignInit /\ AuxIdle /\ UnitIdle

\* Some store load or save has failed, or a write was torn.
storeFault == faults > 0

\* the history of the campaign of the current run
okToday == okTodayOf[workflow]

acted == actedOf[workflow]

Stopped == pc \in {"idle", "done"}

\* The previous run was one of the campaign wf and returned by itself, with
\* every load and save done, and the new run has the same list on the same day.
IsReplay(wf, ps, loadFails, prevDay) ==
    /\ workflow = wf
    /\ pc = "done" /\ ret \in {"nil", "error"}
    /\ ~runFault /\ ~loadFails
    /\ ps = profiles /\ Len(ps) > 0
    /\ prevDay = today

\* ------------------------------------------------- connect.SendRequests

\* The loop moves on to index i + 1, or leaves the loop and returns nil.
NextIteration ==
    IF i < Len(profiles)
    THEN /\ i' = i + 1 /\ pc' = "loop" /\ ret' = ret
    ELSE /\ i' = i /\ pc' = "done" /\ ret' = "nil"

\* request.go SendRequests lines 51-88: empty list, load, day rollover,
\* entry check of the daily limit
SendRequestsStart(ps, loadFails) ==
    /\ Stopped /\ runs < MaxRuns
    /\ workflow' = "connect"
    /\ runs' = runs + 1
    /\ profiles' = ps
    /\ i' = 1
    /\ counts' = ZeroCounts
    /\ IF Len(ps) = 0
       THEN /\ ~loadFails
            /\ pc' = "done" /\ ret' = "nil"
            /\ runFault' = FALSE /\ replay' = FALSE
            /\ UNCHANGED <<cstate, faults>>
       ELSE LET ld == loadConnectionState(connStore, loadFails, today)
                st == ResetDailyCounter(ld.state, today)
                full == DailyLimitReached(st.RequestsSentToday, maxPerDay)
            IN  /\ cstate' = st
                /\ pc' = IF full THEN "done" ELSE "loop"
                /\ ret' = IF full THEN "error" ELSE "none"
                /\ runFault' = (ld.err = "io")
                /\ loadFails => faults < MaxFaults
                /\ faults' = IF ld.err = "io" THEN faults + 1 ELSE faults
                /\ replay' = IsReplay("connect", ps, loadFails, cstate.Date)
    /\ mstate' = newMessageState(0)
    /\ UNCHANGED <<maxPerDay, today, connStore, msgStore, okTodayOf, actedOf,
                   crashes, overnight>>
    /\ UNCHANGED auxVars

\* request.go SendRequests lines 90-114: limit check and duplicate check at
\* the head of each iteration
SendRequestsLoop ==
    /\ workflow = "connect" /\ pc = "loop"
    /\ IF DailyLimitReached(cstate.RequestsSentToday, maxPerDay)
       THEN /\ pc' = "done" /\ ret' = "nil"
            /\ UNCHANGED <<i, counts>>
       ELSE IF AlreadyAttempted(cstate, profiles[i])
       THEN /\ counts' = [counts EXCEPT !.skipCount = @ + 1]
            /\ NextIteration
       ELSE /\ pc' = "step"
            /\ UNCHANGED <<i, counts, ret>>
    /\ UNCHANGED <<workflow, maxPerDay, today, connStore, msgStore, profiles,
                   cstate, mstate, runs, okTodayOf, actedOf, crashes, overnight, faults,
                   runFault, replay>>
    /\ UNCHANGED auxVars

\* request.go SendRequests lines 116-139: sendConnectionRequest returns and
\* its outcome is recorded in memory
SendRequestsStep(failed) ==
    /\ workflow = "connect" /\ pc = "step"
    /\ cstate' = RecordAttempt(cstate, profiles[i], failed)
    /\ counts' = IF failed THEN [counts EXCEPT !.errorCount = @ + 1]
                 ELSE [counts EXCEPT !.successCount = @ + 1]
    /\ okTodayOf' = IF failed THEN okTodayOf
                    ELSE [okTodayOf EXCEPT !["connect"] = @ + 1]
    /\ actedOf' = IF failed THEN actedOf
                  ELSE [actedOf EXCEPT !["connect"] = @ \cup {profiles[i]}]
    /\ pc' = "save"
    /\ UNCHANGED <<workflow, maxPerDay, today, connStore, msgStore, profiles, i,
                   mstate, ret, runs, crashes, overnight, faults, runFault, replay>>
    /\ UNCHANGED auxVars

\* After the save: `if i < len(profiles)-1` sleep, else the loop is over.
AfterSave ==
    IF i < Len(profiles)
    THEN /\ pc' = "pace" /\ ret' = ret
    ELSE /\ pc' = "done" /\ ret' = "nil"

\* request.go SendRequests lines 141-144: save, a failure only logged
SendRequestsSave(outcome) ==
    /\ workflow = "connect" /\ pc = "save"
    /\ connStore' = saveConnectionState(connStore, cstate, outcome)
    /\ runFault' = (runFault \/ outcome # "ok")
    /\ outcome # "ok" => faults < MaxFaults
    /\ faults' = IF outcome # "ok" THEN faults + 1 ELSE faults
    /\ AfterSave
    /\ UNCHANGED <<workflow, maxPerDay, today, msgStore, profiles, i, cstate,
                   mstate, counts, runs, okTodayOf, actedOf, crashes, overnight, replay>>
    /\ UNCHANGED auxVars

\* request.go SendRequests lines 146-158: the pacing sleep, then the next index
SendRequestsPace ==
    /\ workflow = "connect" /\ pc = "pace"
    /\ i' = i + 1
    /\ pc' = "loop"
    /\ UNCHANGED <<workflow, maxPerDay, today, connStore, msgStore, profiles,
                   cstate, mstate, counts, ret, runs, okTodayOf, actedOf, crashes, overnight,
                   faults, runFault, replay>>
    /\ UNCHANGED auxVars

\* ----------------------------------------------- messaging.SendFollowUps

\* followup.go SendFollowUps lines 73-110
SendFollowUpsStart(ps, loadFails) ==
    /\ Stopped /\ runs < MaxRuns
    /\ workflow' = "followup"
    /\ runs' = runs + 1
    /\ profiles' = ps
    /\ i' = 1
    /\ counts' = ZeroCounts
    /\ IF Len(ps) = 0
       THEN /\ ~loadFails
            /\ pc' = "done" /\ ret' = "nil"
            /\ runFault' = FALSE /\ replay' = FALSE
            /\ UNCHANGED <<mstate, faults>>
       ELSE LET ld == loadMessageState(msgStore, loadFails, today)
                st == ResetMessageCounter(ld.state, today)
                full == MessageLimitReached(st.MessagesSentToday, maxPerDay)
            IN  /\ mstate' = st
                /\ pc' = IF full THEN "done" ELSE "loop"
                /\ ret' = IF full THEN "error" ELSE "none"
                /\ runFault' = (ld.err \in {"io", "unmarshal"})
                /\ loadFails => faults < MaxFaults
                /\ faults' = IF ld.err = "io" THEN faults + 1 ELSE faults
                /\ replay' = IsReplay("followup", ps, loadFails, mstate.Date)
    /\ cstate' = newConnectionState(0)
    /\ UNCHANGED <<maxPerDay, today, connStore, msgStore, okTodayOf, actedOf,
                   crashes, overnight>>
    /\ UNCHANGED auxVars

\* followup.go SendFollowUps lines 112-139
SendFollowUpsLoop ==
    /\ workflow = "followup" /\ pc = "loop"
    /\ IF MessageLimitReached(mstate.MessagesSentToday, maxPerDay)
       THEN /\ pc' = "done" /\ ret' = "nil"
            /\ UNCHANGED <<i, counts>>
       ELSE IF AlreadyMessaged(mstate, profiles[i])
       THEN /\ counts' = [counts EXCEPT !.skipCount = @ + 1]
            /\ NextIteration
       ELSE /\ pc' = "step"
            /\ UNCHANGED <<i, counts, ret>>
    /\ UNCHANGED <<workflow, maxPerDay, today, connStore, msgStore, profiles,
                   cstate, mstate, runs, okTodayOf, actedOf, crashes, overnight, faults,
                   runFault, replay>>
    /\ UNCHANGED auxVars

StepOutcomes == {"checkErr", "notConnected", "panic", "sendErr", "ok"}

\* followup.go SendFollowUps lines 141-190: checkIfConnected, then
\* sendFollowUpMessage (whose page.MustInfo panics when the page cannot be
\* read), then the outcome recorded in memory
SendFollowUpsStep(outcome) ==
    /\ workflow = "followup" /\ pc = "step"
    /\ CASE outcome = "checkErr" ->
              /\ counts' = [counts EXCEPT !.errorCount = @ + 1]
              /\ NextIteration
              /\ UNCHANGED <<mstate, okTodayOf, actedOf>>
         [] outcome = "notConnected" ->
              /\ counts' = [counts EXCEPT !.notConnectedCount = @ + 1]
              /\ NextIteration
              /\ UNCHANGED <<mstate, okTodayOf, actedOf>>
         [] outcome = "panic" ->
              /\ pc' = "done" /\ ret' = "panic"
              /\ UNCHANGED <<i, counts, mstate, okTodayOf, actedOf>>
         [] outcome = "sendErr" ->
              /\ mstate' = RecordMessage(mstate, profiles[i], TRUE)
              /\ counts' = [counts EXCEPT !.errorCount = @ + 1]
              /\ pc' = "save"
              /\ UNCHANGED <<i, ret, okTodayOf, actedOf>>
         [] outcome = "ok" ->
              /\ mstate' = RecordMessage(mstate, profiles[i], FALSE)
              /\ counts' = [counts EXCEPT !.successCount = @ + 1]
              /\ okTodayOf' = [okTodayOf EXCEPT !["followup"] = @ + 1]
              /\ actedOf' = [actedOf EXCEPT !["followup"] = @ \cup {profiles[i]}]
              /\ pc' = "save"
              /\ UNCHANGED <<i, ret>>
    /\ UNCHANGED <<workflow, maxPerDay, today, connStore, msgStore, profiles,
                   cstate, runs, crashes, overnight, faults, runFault, replay>>
    /\ UNCHANGED auxVars

\* followup.go SendFollowUps lines 192-195
SendFollowUpsSave(outcome) ==
    /\ workflow = "followup" /\ pc = "save"
    /\ msgStore' = saveMessageState(msgStore, mstate, outcome)
    /\ runFault' = (runFault \/ outcome # "ok")
    /\ outcome # "ok" => faults < MaxFaults
    /\ faults' = IF outcome # "ok" THEN faults + 1 ELSE faults
    /\ AfterSave
    /\ UNCHANGED <<workflow, maxPerDay, today, connStore, profiles, i, cstate,
                   mstate, counts, runs, okTodayOf, actedOf, crashes, overnight, replay>>
    /\ UNCHANGED auxVars

\* followup.go SendFollowUps lines 197-209
SendFollowUpsPace ==
    /\ workflow = "followup" /\ pc = "pace"
    /\ i' = i + 1
    /\ pc' = "loop"
    /\ UNCHANGED <<workflow, maxPerDay, today, connStore, msgStore, profiles,
                   cstate, mstate, counts, ret, runs, okTodayOf, actedOf, crashes, overnight,
                   faults, runFault, replay>>
    /\ UNCHANGED auxVars

\* ------------------------------------------------------------ environment

\* The process is gone and its memory with it.
ProcessMemoryLost ==
    /\ profiles' = << >>
    /\ i' = 1
    /\ cstate' = newConnectionState(0)
    /\ mstate' = newMessageState(0)
    /\ counts' = ZeroCounts

\* where a kill falls: outside a write of the state file ("clean"), or in
\* the middle of os.WriteFile, leaving the file of length zero ("emptied") or
\* cut short ("torn")
KillPoints == {"clean", "emptied", "torn"}

\* The process is terminated abruptly (SIGKILL, power loss). At "step" the
\* action on the site has not been delivered yet; at "save" it has, and the
\* kill may fall in the middle of os.WriteFile and leave the file truncated.
\* loadConnectionState treats an empty and a cut file alike (request.go
\* lines 611-615), loadMessageState does not.
Kill(point) ==
    /\ pc \in {"loop", "step", "save", "pace"}
    /\ point # "clean" => pc = "save"
    /\ point # "clean" => faults < MaxFaults
    /\ crashes < MaxKills
    /\ pc' = "done"
    /\ ret' = "killed"
    /\ crashes' = crashes + 1
    /\ connStore' = IF point # "clean" /\ workflow = "connect"
                    THEN CorruptConn ELSE connStore
    /\ msgStore' = IF point = "clean" \/ workflow # "followup" THEN msgStore
                   ELSE IF point = "emptied" THEN EmptyMsg ELSE CorruptMsg
    /\ faults' = IF point # "clean" THEN faults + 1 ELSE faults
    /\ ProcessMemoryLost
    /\ UNCHANGED <<workflow, maxPerDay, today, runs, okTodayOf, actedOf, overnight,
                   runFault, replay>>
    /\ UNCHANGED auxVars

\* Midnight passes, between two runs or while a run goes on: the run has read
\* the date once, at its start (request.go line 70, followup.go line 91), and
\* keeps counting under it.
NextDay ==
    /\ today < MaxDay
    /\ today' = today + 1
    /\ okTodayOf' = [w \in Workflows |-> 0]
    /\ crashes' = 0
    /\ overnight' = ~Stopped
    /\ UNCHANGED actedOf
    /\ UNCHANGED <<workflow, maxPerDay, connStore, msgStore, pc, profiles, i,
                   cstate, mstate, counts, ret, runs, faults, runFault,
                   replay>>
    /\ UNCHANGED auxVars

Next ==
    \/ \E ps \in ProfileLists, loadFails \in BOOLEAN : SendRequestsStart(ps, loadFails)
    \/ SendRequestsLoop
    \/ \E failed \in BOOLEAN : SendRequestsStep(failed)
    \/ \E outcome \in {"ok", "fail", "torn"} : SendRequestsSave(outcome)
    \/ SendRequestsPace
    \/ \E ps \in ProfileLists, loadFails \in BOOLEAN : SendFollowUpsStart(ps, loadFails)
    \/ SendFollowUpsLoop
    \/ \E outcome \in StepOutcomes : SendFollowUpsStep(outcome)
    \/ \E outcome \in {"ok", "fail", "emptied", "torn"} : SendFollowUpsSave(outcome)
    \/ SendFollowUpsPace
    \/ \E point \in KillPoints : Kill(point)
    \/ NextDay

Spec == Init /\ [][Next]_vars

\* ------------------------------------- the step of SendRequests on a page

\* request.go SendRequests lines 116-139 with sendConnectionRequest carried
\* out on the profile page pg: the error it returns and the outcome recorded
SendConnectionRequestStep(pg) ==
    /\ workflow = "connect" /\ pc = "step"
    /\ LET err == sendConnectionRequest(pg)
       IN  /\ stepErr' = err
           /\ cstate' = RecordAttempt(cstate, profiles[i], err # "")
           /\ counts' = IF err # ""
                        THEN [counts EXCEPT !.errorCount = @ + 1]
                        ELSE [counts EXCEPT !.successCount = @ + 1]
           /\ okTodayOf' = IF err # "" THEN okTodayOf
                           ELSE [okTodayOf EXCEPT !["connect"] = @ + 1]
           /\ actedOf' = IF err # "" THEN actedOf
                         ELSE [actedOf EXCEPT !["connect"] = @ \cup {profiles[i]}]
    /\ undelivered' = DeliveryFailures(pg)
    /\ challenge' = IF pg.checkpoint THEN runs ELSE challenge
    /\ pc' = "save"
    /\ UNCHANGED <<workflow, maxPerDay, today, connStore, msgStore, profiles, i,
                   mstate, ret, runs, crashes, overnight, faults, runFault, replay>>
    /\ UNCHANGED <<cancelled, pacingVars, discoveryVars, unitVars>>

InitLocator == Init /\ workflow = "connect" /\ maxPerDay >= 1

MaxVisits == 2   \* longest profile list of a run whose pages are spelled out

NextLocator ==
    \/ \E ps \in ProfileLists : Len(ps) <= MaxVisits /\ SendRequestsStart(ps, FALSE)
    \/ SendRequestsLoop
    \/ pc = "step" /\ \E pg \in ProfilePages : SendConnectionRequestStep(pg)
    \/ SendRequestsSave("ok")
    \/ SendRequestsPace

\* SendRequests with every target's profile page spelled out, the store working
SpecLocator == InitLocator /\ [][NextLocator]_vars

\* ------------------------------------------------- the operator's stop signal

\* session.go main lines 208-212: the goroutine receives os.Interrupt or
\* SIGTERM from sigCh and cancels main's ctx. SendRequests and SendFollowUps
\* are called with context.Background() and sleep with time.Sleep, so nothing
\* of a campaign run changes.
StopSignal ==
    /\ ~cancelled
    /\ cancelled' = TRUE
    /\ UNCHANGED <<campaignVars, locatorVars, pacingVars, discoveryVars, unitVars>>

NextCancel ==
    \/ StopSignal
    \/ \E ps \in ProfileLists : SendRequestsStart(ps, FALSE)
    \/ SendRequestsLoop
    \/ \E failed \in BOOLEAN : SendRequestsStep(failed)
    \/ SendRequestsSave("ok")
    \/ SendRequestsPace
    \/ \E ps \in ProfileLists : SendFollowUpsStart(ps, FALSE)
    \/ SendFollowUpsLoop
    \/ \E outcome \in StepOutcomes : SendFollowUpsStep(outcome)
    \/ SendFollowUpsSave("ok")
    \/ SendFollowUpsPace

\* the campaigns with the store working, and the stop signal
SpecCancel == Init /\ [][NextCancel]_vars

\* ------------------------------------------------ abrupt termination alone

NextCrash ==
    \/ \E ps \in ProfileLists : SendRequestsStart(ps, FALSE)
    \/ SendRequestsLoop
    \/ \E failed \in BOOLEAN : SendRequestsStep(failed)
    \/ SendRequestsSave("ok")
    \/ SendRequestsPace
    \/ \E ps \in ProfileLists : SendFollowUpsStart(ps, FALSE)
    \/ SendFollowUpsLoop
    \/ \E outcome \in StepOutcomes : SendFollowUpsStep(outcome)
    \/ SendFollowUpsSave("ok")
    \/ SendFollowUpsPace
    \/ \E point \in KillPoints : Kill(point)
    \/ NextDay

\* the campaigns with every load and save of the store returning without an
\* error, the process being killed at any point
SpecCrash == Init /\ [][NextCrash]_vars

\* ---------------------------------------------- the pacing wait of a run

\* request.go SendRequests lines 146-158: the wait is computed and slept, then
\* the loop goes on to the next index
SendRequestsPaceWait ==
    /\ workflow = "connect" /\ pc = "pace"
    /\ \E rnd \in RandomDelay(Int64(2000), Int64(5000)) :
          waitTime' = PacingWait("connect", waitCfg, rnd)
    /\ i' = i + 1
    /\ pc' = "loop"
    /\ UNCHANGED <<workflow, maxPerDay, today, connStore, msgStore, profiles,
                   cstate, mstate, counts, ret, runs, okTodayOf, actedOf, crashes, overnight,
                   faults, runFault, replay>>
    /\ UNCHANGED <<locatorVars, cancelled, waitCfg, discoveryVars, unitVars>>

\* followup.go SendFollowUps lines 197-209
SendFollowUpsPaceWait ==
    /\ workflow = "followup" /\ pc = "pace"
    /\ \E rnd \in RandomDelay(Int64(2000), Int64(5000)) :
          waitTime' = PacingWait("followup", waitCfg, rnd)
    /\ i' = i + 1
    /\ pc' = "loop"
    /\ UNCHANGED <<workflow, maxPerDay, today, connStore, msgStore, profiles,
                   cstate, mstate, counts, ret, runs, okTodayOf, actedOf, crashes, overnight,
                   faults, runFault, replay>>
    /\ UNCHANGED <<locatorVars, cancelled, waitCfg, discoveryVars, unitVars>>

\* A run over [A, B] that has sent to A and saved, for each workflow and each
\* configured wait: the position before the pacing wait.
InitPacing ==
    /\ workflow \in {"connect", "followup"}
    /\ waitCfg \in WaitConfigs
    /\ maxPerDay = MaxQuota
    /\ today = 1
    /\ profiles = <<"A", "B">>
    /\ i = 1
    /\ pc = "pace"
    /\ cstate = IF workflow = "connect"
                THEN RecordAttempt(newConnectionState(1), "A", FALSE)
                ELSE newConnectionState(0)
    /\ mstate = IF workflow = "followup"
                THEN RecordMessage(newMessageState(1), "A", FALSE)
                ELSE newMessageState(0)
    /\ connStore = IF workflow = "connect"
                   THEN saveConnectionState(AbsentConn, cstate, "ok") ELSE AbsentConn
    /\ msgStore = IF workflow = "followup"
                  THEN saveMessageState(AbsentMsg, mstate, "ok") ELSE AbsentMsg
    /\ counts = [ZeroCounts EXCEPT !.successCount = 1]
    /\ ret = "none"
    /\ runs = 1
    /\ okTodayOf = [w \in Workflows |-> IF w = workflow THEN 1 ELSE 0]
    /\ actedOf = [w \in Workflows |-> IF w = workflow THEN {"A"} ELSE {}]
    /\ crashes = 0
    /\ overnight = FALSE
    /\ faults = 0
    /\ runFault = FALSE
    /\ replay = FALSE
    /\ waitTime = Zero64
    /\ LocatorIdle
    /\ cancelled = FALSE
    /\ DiscoveryIdle
    /\ UnitIdle

NextPacing ==
    \/ SendRequestsPaceWait
    \/ SendFollowUpsPaceWait

\* the pacing wait between the first and the second target, for every
\* configured wait and every random addition
SpecPacing == InitPacing /\ [][NextPacing]_vars

\* ------------------------------------------------------ search.FindPeople

\* how the search of FindPeople lines 244-260 ends: "ok" when performHumanSearch
\* or the navigation to the search URL succeeded, "error" when both failed,
\* "panic" when page.MustInfo() of performHumanSearch (patterns.go lines 760,
\* 856, 865) panicked: nothing recovers it, so FindPeople returns nothing and
\* the process ends there, the seen profiles unsaved
SearchOutcomes == {"ok", "error", "panic"}

\* patterns.go FindPeople lines 237-280: the seen profiles are loaded (a load
\* error only logged), the search is made and the page loop is set up
FindPeopleStart(mp, loadFails, search) ==
    /\ dpc \in {"idle", "done"} /\ searches < MaxSearches
    /\ loadFails => searchFaults < MaxFaults
    /\ searches' = searches + 1
    /\ returnedBefore' =
          returnedBefore \cup (IF dret = "nil" THEN Range(allProfiles) ELSE {})
    /\ seenProfiles' = loadSeenProfiles(seenStore, loadFails).seen
    /\ loadedSeen' = loadSeenProfiles(seenStore, loadFails).seen
    /\ searchFaults' = IF loadFails THEN searchFaults + 1 ELSE searchFaults
    /\ allProfiles' = << >>
    /\ currentPage' = 1
    /\ maxPages' = EffectiveMaxPages(mp)
    /\ newCount' = 0
    /\ extracted' = 0
    /\ transitions' = 0
    /\ CASE search = "ok"    -> dpc' = "loop" /\ dret' = "none"
         [] search = "error" -> dpc' = "done" /\ dret' = "error"
         [] OTHER            -> dpc' = "done" /\ dret' = "panic"
    /\ UNCHANGED seenStore
    /\ UNCHANGED <<campaignVars, locatorVars, cancelled, pacingVars, unitVars>>

\* patterns.go FindPeople line 280: `for currentPage <= maxPages` is over
FindPeopleLoopExit ==
    /\ dpc = "loop" /\ currentPage > maxPages
    /\ dpc' = "save"
    /\ UNCHANGED <<seenStore, seenProfiles, allProfiles, currentPage, maxPages,
                   dret, searches, loadedSeen, newCount, extracted, transitions,
                   returnedBefore, searchFaults>>
    /\ UNCHANGED <<campaignVars, locatorVars, cancelled, pacingVars, unitVars>>

\* patterns.go FindPeople lines 281-315: the current result page, carrying
\* the hrefs links, is extracted and its new profiles are collected
FindPeopleExtract(links) ==
    /\ dpc = "loop" /\ currentPage <= maxPages
    /\ extracted' = extracted + 1
    /\ IF extractProfileURLs(links).err # ""
       THEN /\ dpc' = "done" /\ dret' = "error"
            /\ allProfiles' = FailedResult(allProfiles)
            /\ UNCHANGED <<seenProfiles, newCount>>
       ELSE LET c == CollectNew(extractProfileURLs(links).result, seenProfiles,
                                allProfiles, 0)
            IN  /\ seenProfiles' = c.seen
                /\ allProfiles' = c.all
                /\ newCount' = c.newCount
                /\ dpc' = "paginate" /\ dret' = dret
    /\ UNCHANGED <<seenStore, currentPage, maxPages, searches, loadedSeen,
                   transitions, returnedBefore, searchFaults>>
    /\ UNCHANGED <<campaignVars, locatorVars, cancelled, pacingVars, unitVars>>

\* patterns.go FindPeople lines 316-351: hasNextPage, clickNextPage, the
\* page counter and the pause before the next page
FindPeoplePaginate(hasNext, clickOk) ==
    /\ dpc = "paginate"
    /\ IF hasNext /\ clickOk
       THEN /\ transitions' = transitions + 1
            /\ currentPage' = currentPage + 1
            /\ dpc' = "loop"
       ELSE /\ dpc' = "save"
            /\ UNCHANGED <<transitions, currentPage>>
    /\ UNCHANGED <<seenStore, seenProfiles, allProfiles, maxPages, dret, searches,
                   loadedSeen, newCount, extracted, returnedBefore, searchFaults>>
    /\ UNCHANGED <<campaignVars, locatorVars, cancelled, pacingVars, unitVars>>

\* patterns.go FindPeople lines 353-365: the seen profiles are saved, a
\* failure only logged, and allProfiles is returned with a nil error
FindPeopleSave(outcome) ==
    /\ dpc = "save"
    /\ outcome # "ok" => searchFaults < MaxFaults
    /\ seenStore' = saveSeenProfiles(seenStore, seenProfiles, outcome)
    /\ searchFaults' = IF outcome # "ok" THEN searchFaults + 1 ELSE searchFaults
    /\ dpc' = "done" /\ dret' = "nil"
    /\ UNCHANGED <<seenProfiles, allProfiles, currentPage, maxPages, searches,
                   loadedSeen, newCount, extracted, transitions, returnedBefore>>
    /\ UNCHANGED <<campaignVars, locatorVars, cancelled, pacingVars, unitVars>>

InitDiscovery == Init /\ workflow = "connect" /\ maxPerDay = MaxQuota

NextDiscovery ==
    \/ \E mp \in (-1)..MaxPagesCfg, loadFails \in BOOLEAN, search \in SearchOutcomes :
          FindPeopleStart(mp, loadFails, search)
    \/ FindPeopleLoopExit
    \/ \E links \in PageContents : FindPeopleExtract(links)
    \/ \E hasNext \in BOOLEAN, clickOk \in BOOLEAN : FindPeoplePaginate(hasNext, clickOk)
    \/ \E outcome \in {"ok", "fail", "torn"} : FindPeopleSave(outcome)

\* runPeopleSearch: calls of FindPeople over the seen_profiles store
SpecDiscovery == InitDiscovery /\ [][NextDiscovery]_vars

\* the campaign not started, nothing else under way
Quiet == CampaignInit /\ workflow = "connect" /\ maxPerDay = MaxQuota /\ AuxIdle

\* ------------------------------------------- normalizeProfileURL on its own

\* patterns.go line 476: normalized := normalizeProfileURL(link)
NormalizeCall ==
    /\ normalized = NoResult
    /\ normalized' = normalizeProfileURL(rawURL)
    /\ UNCHANGED <<rawURL, renormalized>>
    /\ UNCHANGED besideNormalize

\* patterns.go line 293: FindPeople normalizes what extractProfileURLs
\* returned once more
NormalizeAgain ==
    /\ normalized # NoResult /\ renormalized = NoResult
    /\ renormalized' = normalizeProfileURL(normalized)
    /\ UNCHANGED <<rawURL, normalized>>
    /\ UNCHANGED besideNormalize

InitNormalize ==
    /\ Quiet
    /\ rawURL \in URLInputs
    /\ normalized = NoResult
    /\ renormalized = NoResult
    /\ DelayIdle
    /\ MouseIdle
    /\ TypingIdle
    /\ StoreIdle
    /\ AuthIdle
    /\ FindIdle

NextNormalize == NormalizeCall \/ NormalizeAgain

\* normalizeProfileURL applied to every input, and to its own result
SpecNormalize == InitNormalize /\ [][NextNormalize]_vars

\* ---------------------------------------------------- RandomDelay on its own

\* timing.go RandomDelay lines 12-22
StealthRandomDelayCall ==
    /\ delayImpl = "stealth" /\ delayPc = "call"
    /\ Examined(delayImpl, minMs, maxMs)
    /\ IF RandomDelay(minMs, maxMs) = {}
       THEN delayPc' = "panic" /\ delay' = delay
       ELSE /\ delayPc' = "returned"
            /\ \E d \in RandomDelay(minMs, maxMs) : delay' = d
    /\ UNCHANGED <<delayImpl, minMs, maxMs>>
    /\ UNCHANGED besideDelay

\* patterns.go RandomDelay lines 153-162
NavigationRandomDelayCall ==
    /\ delayImpl = "navigation" /\ delayPc = "call"
    /\ Examined(delayImpl, minMs, maxMs)
    /\ delayPc' = "returned"
    /\ \E d \in NavigationRandomDelay(minMs, maxMs) : delay' = d
    /\ UNCHANGED <<delayImpl, minMs, maxMs>>
    /\ UNCHANGED besideDelay

InitDelay ==
    /\ Quiet
    /\ NormalizeIdle
    /\ MouseIdle
    /\ TypingIdle
    /\ StoreIdle
    /\ delayImpl \in {"stealth", "navigation"}
    /\ minMs \in DelayBounds
    /\ maxMs \in DelayBounds
    /\ Examined(delayImpl, minMs, maxMs)
    /\ delayPc = "call"
    /\ delay = Zero64
    /\ AuthIdle
    /\ FindIdle

NextDelay == StealthRandomDelayCall \/ NavigationRandomDelayCall

\* both RandomDelay functions called once with every examined pair of bounds
SpecDelay == InitDelay /\ [][NextDelay]_vars

\* ------------------------------------------ stealth.MoveMouseHuman on its own

\* mouse.go lines 22-28: the target is less than 2 away, one MoveTo to it
MoveMouseHumanDirect(ok) ==
    /\ mousePc = "call"
    /\ Direct(Dist2(fromX, fromY, toX, toY))
    /\ issued' = issued + 1
    /\ lastMove' = IF ok THEN ExactMove(toX, toY) ELSE lastMove
    /\ mouseRet' = IF ok THEN "nil" ELSE "error"
    /\ mousePc' = "done"
    /\ UNCHANGED <<fromX, fromY, toX, toY, callerTo, points>>
    /\ UNCHANGED besideMouse

\* mouse.go lines 30-62: the step count, the overshoot (drawn with chance
\* 0.22) added to the parameters toX and toY, and the curve towards them
\* sampled at `steps` points
MoveMouseHumanSample(overshoot, ox, oy) ==
    /\ mousePc = "call"
    /\ ~Direct(Dist2(fromX, fromY, toX, toY))
    /\ points' = SampleSteps(Dist2(fromX, fromY, toX, toY))
    /\ toX' = IF overshoot THEN toX + ox ELSE toX
    /\ toY' = IF overshoot THEN toY + oy ELSE toY
    /\ mousePc' = "curve"
    /\ UNCHANGED <<fromX, fromY, callerTo, issued, lastMove, mouseRet>>
    /\ UNCHANGED besideMouse

\* mouse.go lines 64-79: page.Mouse.MoveAlong is handed the guide over
\* points. MoveAlong belongs to the rod library: it issues the points the guide
\* gives it until the guide's boolean tells it to stop, which it reads either
\* at the first point or after the last (n is the number it issued); a failed
\* move makes MoveMouseHuman return "mouse move: ...".
MoveMouseHumanReplay(ok) ==
    /\ mousePc = "curve"
    /\ \E n \in {1, points} :
          /\ issued' = issued + n
          /\ lastMove' = IF ok \/ n > 1 THEN CurveMove ELSE lastMove
    /\ mouseRet' = IF ok THEN mouseRet ELSE "error"
    /\ mousePc' = IF ok THEN "correct" ELSE "done"
    /\ UNCHANGED <<fromX, fromY, toX, toY, callerTo, points>>
    /\ UNCHANGED besideMouse

\* mouse.go lines 81-82: the final MoveTo, to the toX and toY of the body
MoveMouseHumanCorrect(ok) ==
    /\ mousePc = "correct"
    /\ issued' = issued + 1
    /\ lastMove' = IF ok THEN ExactMove(toX, toY) ELSE lastMove
    /\ mouseRet' = IF ok THEN "nil" ELSE "error"
    /\ mousePc' = "done"
    /\ UNCHANGED <<fromX, fromY, toX, toY, callerTo, points>>
    /\ UNCHANGED besideMouse

InitMouse ==
    /\ Quiet
    /\ NormalizeIdle
    /\ DelayIdle
    /\ TypingIdle
    /\ StoreIdle
    /\ fromX \in FromXs /\ fromY = 0
    /\ toX \in ToXs /\ toY \in ToYs
    /\ callerTo = <<toX, toY>>
    /\ points = 0 /\ mousePc = "call" /\ issued = 0 /\ lastMove = NoMove
    /\ mouseRet = "none"
    /\ AuthIdle
    /\ FindIdle

NextMouse ==
    \/ \E ok \in BOOLEAN : MoveMouseHumanDirect(ok)
    \/ \E ox \in OvershootOffsets, oy \in OvershootOffsets :
          MoveMouseHumanSample(TRUE, ox, oy)
    \/ MoveMouseHumanSample(FALSE, 0, 0)
    \/ \E ok \in BOOLEAN : MoveMouseHumanReplay(ok)
    \/ \E ok \in BOOLEAN : MoveMouseHumanCorrect(ok)

\* one MoveMouseHuman call for every pair of points and every random outcome
SpecMouse == InitMouse /\ [][NextMouse]_vars

\* ----------------------------------------------- stealth.TypeHuman on its own

\* typing.go lines 23-30: ScrollIntoView and Click on the element
TypeHumanFocus(scrollOk, clickOk) ==
    /\ typPc = "call"
    /\ typPc' = AfterDelivery(scrollOk /\ clickOk, "loop")
    /\ typFailed' = (typFailed \/ ~(scrollOk /\ clickOk))
    /\ typRet' = IF scrollOk /\ clickOk THEN typRet ELSE "error"
    /\ UNCHANGED <<typField, typText, typIdx, keys>>

\* typing.go lines 32-34 and 58: the head of the loop over the runes; typo is
\* r.Float64() < 0.05. After the last rune TypeHuman returns nil.
TypeHumanLoop(typo) ==
    /\ typPc = "loop"
    /\ IF typIdx > Len(typText)
       THEN typPc' = "done" /\ typRet' = "nil"
       ELSE typPc' = (IF typo THEN "wrong" ELSE "char") /\ typRet' = typRet
    /\ UNCHANGED <<typField, typText, typIdx, keys, typFailed>>

\* typing.go lines 35-39: the wrong rune is typed
TypeHumanWrong(wrong, ok) ==
    /\ typPc = "wrong"
    /\ wrong \in randomNearbyRune(typText[typIdx])
    /\ keys' = IF ok THEN Append(keys, TypedKey(wrong, TRUE)) ELSE keys
    /\ typPc' = AfterDelivery(ok, "delete")
    /\ typFailed' = (typFailed \/ ~ok)
    /\ typRet' = IF ok THEN typRet ELSE "error"
    /\ UNCHANGED <<typField, typText, typIdx>>

\* typing.go lines 40-43: Backspace is pressed
TypeHumanDelete(ok) ==
    /\ typPc = "delete"
    /\ keys' = IF ok THEN Append(keys, CorrectionKey) ELSE keys
    /\ typPc' = AfterDelivery(ok, "char")
    /\ typFailed' = (typFailed \/ ~ok)
    /\ typRet' = IF ok THEN typRet ELSE "error"
    /\ UNCHANGED <<typField, typText, typIdx>>

\* typing.go lines 46-56: the rune of the text is typed
TypeHumanChar(ok) ==
    /\ typPc = "char"
    /\ keys' = IF ok THEN Append(keys, TypedKey(typText[typIdx], FALSE)) ELSE keys
    /\ typIdx' = typIdx + 1
    /\ typPc' = AfterDelivery(ok, "loop")
    /\ typFailed' = (typFailed \/ ~ok)
    /\ typRet' = IF ok THEN typRet ELSE "error"
    /\ UNCHANGED <<typField, typText>>

\* one step of TypeHuman
TypeHumanStep ==
    \/ \E scrollOk \in BOOLEAN, clickOk \in BOOLEAN : TypeHumanFocus(scrollOk, clickOk)
    \/ \E typo \in BOOLEAN : TypeHumanLoop(typo)
    \/ \E wrong \in randomNearbyRune("a") \cup randomNearbyRune("Q"), ok \in BOOLEAN :
          TypeHumanWrong(wrong, ok)
    \/ \E ok \in BOOLEAN : TypeHumanDelete(ok)
    \/ \E ok \in BOOLEAN : TypeHumanChar(ok)

InitTyping ==
    /\ Quiet
    /\ NormalizeIdle
    /\ DelayIdle
    /\ MouseIdle
    /\ StoreIdle
    /\ typField = "field"
    /\ typText \in Texts
    /\ typIdx = 1 /\ typPc = "call" /\ keys = << >>
    /\ typFailed = FALSE /\ typRet = "none"
    /\ AuthIdle
    /\ FindIdle

NextTyping == TypeHumanStep /\ UNCHANGED besideTyping

\* one TypeHuman call for every text, every random outcome and every
\* delivery failure
SpecTyping == InitTyping /\ [][NextTyping]_vars

\* ------------------------------------------------ storage.FileStore on its own

\* FileStore.Save
FileStoreSave(key, data, outcome) ==
    /\ fsCount < MaxOps
    /\ baseDir' = ensureDir(baseDir)
    /\ files' = Save(baseDir, files, key, data, outcome)
    /\ fsOp' = StoreOp("Save", key, data, SaveErr(key, outcome))
    /\ saved' = IF key = EmptyKey \/ outcome = "nodir" THEN saved
                ELSE [saved EXCEPT ![key] = IF outcome = "ok" THEN data ELSE Unknown]
    /\ fsCount' = fsCount + 1
    /\ UNCHANGED besideStore

\* FileStore.Load
FileStoreLoad(key, outcome) ==
    /\ fsCount < MaxOps
    /\ baseDir' = ensureDir(baseDir)
    /\ fsOp' = StoreOp("Load", key, Load(baseDir, files, key, outcome).data,
                       Load(baseDir, files, key, outcome).err)
    /\ fsCount' = fsCount + 1
    /\ UNCHANGED <<files, saved>>
    /\ UNCHANGED besideStore

\* FileStore.Delete
FileStoreDelete(key, outcome) ==
    /\ fsCount < MaxOps
    /\ files' = Delete(baseDir, files, key, outcome)
    /\ fsOp' = StoreOp("Delete", key, "", DeleteErr(key, outcome))
    /\ saved' = IF DeleteErr(key, outcome) # "" THEN saved
                ELSE [saved EXCEPT ![key] = NeverSaved]
    /\ fsCount' = fsCount + 1
    /\ UNCHANGED baseDir
    /\ UNCHANGED besideStore

\* session.go main line 287: a new process builds its FileStore over the
\* same disk, with BaseDir given or left empty
FileStoreOpen(dir) ==
    /\ fsCount < MaxOps
    /\ fsCount > 0
    /\ baseDir' = dir
    /\ fsOp' = StoreOp("Open", EmptyKey, "", "")
    /\ fsCount' = fsCount + 1
    /\ UNCHANGED <<files, saved>>
    /\ UNCHANGED besideStore

InitStore ==
    /\ Quiet
    /\ NormalizeIdle
    /\ DelayIdle
    /\ MouseIdle
    /\ TypingIdle
    /\ baseDir \in BaseDirs
    /\ files = [p \in StorePaths |-> NoFile]
    /\ fsOp = StoreOp("none", EmptyKey, "", "")
    /\ fsCount = 0
    /\ saved = [k \in StoreKeys |-> NeverSaved]
    /\ AuthIdle
    /\ FindIdle

NextStore ==
    \/ \E key \in StoreKeys, data \in StoreData, outcome \in SaveOutcomes :
          FileStoreSave(key, data, outcome)
    \/ \E key \in StoreKeys, outcome \in LoadOutcomes : FileStoreLoad(key, outcome)
    \/ \E key \in StoreKeys, outcome \in DeleteOutcomes : FileStoreDelete(key, outcome)
    \/ \E dir \in BaseDirs : FileStoreOpen(dir)

\* sequences of Save, Load and Delete on a FileStore, over process restarts
SpecStore == InitStore /\ [][NextStore]_vars

\* ------------------------------- findConnectButton and findMessageButton

\* request.go findConnectButton lines 282-342
FindConnectButtonCall ==
    /\ findKind = "connect" /\ findPc = "call"
    /\ located' = findConnectButtonIn(dom)
    /\ findPc' = "returned"
    /\ UNCHANGED <<findKind, dom>>
    /\ UNCHANGED besideFind

\* followup.go findMessageButton lines 425-481
FindMessageButtonCall ==
    /\ findKind = "message" /\ findPc = "call"
    /\ located' = findMessageButton(dom)
    /\ findPc' = "returned"
    /\ UNCHANGED <<findKind, dom>>
    /\ UNCHANGED besideFind

InitFind ==
    /\ Quiet
    /\ NormalizeIdle
    /\ DelayIdle
    /\ MouseIdle
    /\ TypingIdle
    /\ StoreIdle
    /\ AuthIdle
    /\ findKind \in {"connect", "message"}
    /\ dom \in IF findKind = "connect"
               THEN Doms(Len(connectSelectors), Len(unavailableReasons))
               ELSE Doms(Len(messageSelectors), Len(restrictedReasons))
    /\ findPc = "call"
    /\ located = NotCalled

NextFind == FindConnectButtonCall \/ FindMessageButtonCall

\* one call of a locator on every page examined
SpecFind == InitFind /\ [][NextFind]_vars

\* ------------------------------------------------ auth.LoginOrRestoreSession

\* LoginOrRestoreSession returns
AuthReturn(r) == authPc' = "done" /\ authRet' = r

\* login.go lines 28-39 with session.go restoreSession: the cookies are
\* loaded, injected and the feed visited
LoginRestore(outcome) ==
    /\ authPc = "restore"
    /\ RestorePossible(session, outcome)
    /\ restore' = outcome
    /\ LET next == AfterRestore(restoreSession(outcome))
       IN  IF next = "login" THEN authPc' = "creds" /\ authRet' = authRet
           ELSE AuthReturn(next)
    /\ UNCHANGED <<submitted, session, persist, typingVars>>
    /\ UNCHANGED besideAuth

\* login.go lines 42-45 with loadCredsFromEnv lines 57-64
LoginLoadCreds(present) ==
    /\ authPc = "creds"
    /\ IF present THEN authPc' = "form" /\ authRet' = authRet
       ELSE AuthReturn("error")
    /\ UNCHANGED <<submitted, session, restore, persist, typingVars>>
    /\ UNCHANGED besideAuth

\* login.go performLogin lines 67-106: the login page is opened and its
\* controls looked up; emailField is "absent", "empty" or "prefilled"
PerformLoginForm(navOk, emailField, passwordFound, buttonFound) ==
    /\ authPc = "form"
    /\ IF navOk /\ passwordFound /\ buttonFound
       THEN /\ authPc' = IF emailField = "empty" THEN "email" ELSE "password"
            /\ authRet' = authRet
       ELSE AuthReturn("error")
    /\ UNCHANGED <<submitted, session, restore, persist, typingVars>>
    /\ UNCHANGED besideAuth

\* login.go lines 97-102 and 108-113: MoveToElementHuman to the field, then
\* stealth.TypeHuman(field, text) is called
PerformLoginType(field, moveOk) ==
    /\ authPc = field
    /\ field \in {"email", "password"}
    /\ IF moveOk
       THEN /\ authPc' = IF field = "email" THEN "typingEmail" ELSE "typingPassword"
            /\ authRet' = authRet
            /\ typField' = field
            /\ typText' = IF field = "email" THEN EnvEmail ELSE EnvPassword
            /\ typIdx' = 1 /\ typPc' = "call" /\ keys' = << >>
            /\ typFailed' = FALSE /\ typRet' = "none"
       ELSE AuthReturn("error") /\ UNCHANGED typingVars
    /\ UNCHANGED <<submitted, session, restore, persist>>
    /\ UNCHANGED besideAuth

\* stealth.TypeHuman at work on the email or the password field
PerformLoginTyping ==
    /\ authPc \in {"typingEmail", "typingPassword"}
    /\ TypeHumanStep
    /\ UNCHANGED authVars
    /\ UNCHANGED besideAuth

\* login.go lines 100-102 and 111-113: TypeHuman has returned
PerformLoginTyped ==
    /\ authPc \in {"typingEmail", "typingPassword"}
    /\ typPc = "done"
    /\ IF typRet = "nil"
       THEN /\ authPc' = IF authPc = "typingEmail" THEN "password" ELSE "submit"
            /\ authRet' = authRet
       ELSE AuthReturn("error")
    /\ UNCHANGED <<submitted, session, restore, persist, typingVars>>
    /\ UNCHANGED besideAuth

\* login.go lines 115-121: the pointer is moved to the submit button and the
\* button clicked
PerformLoginSubmit(moveOk, clickOk) ==
    /\ authPc = "submit"
    /\ submitted' = (submitted \/ (moveOk /\ clickOk))
    /\ IF moveOk /\ clickOk THEN authPc' = "await" /\ authRet' = authRet
       ELSE AuthReturn("error")
    /\ UNCHANGED <<session, restore, persist, typingVars>>
    /\ UNCHANGED besideAuth

\* session.go persistSession over FileStore.Save: the file afterwards
persistSession(sess, outcome) ==
    CASE outcome = "ok"   -> "fresh"
      [] outcome = "fail" -> sess
      [] OTHER            -> "corrupt"

\* login.go lines 126-144 and 51-54: awaitLoginResult, then persistSession,
\* whose failure is logged only
PerformLoginAwait(result, saveOutcome) ==
    /\ authPc = "await"
    /\ AuthReturn(IF result = "ok" THEN "nil" ELSE "error")
    /\ session' = IF result = "ok" THEN persistSession(session, saveOutcome) ELSE session
    /\ persist' = IF result = "ok" THEN saveOutcome ELSE "none"
    /\ UNCHANGED <<submitted, restore, typingVars>>
    /\ UNCHANGED besideAuth

InitAuth ==
    /\ Quiet
    /\ NormalizeIdle
    /\ DelayIdle
    /\ MouseIdle
    /\ TypingIdle
    /\ StoreIdle
    /\ authPc = "restore" /\ submitted = FALSE /\ authRet = "none"
    /\ session \in {"absent", "corrupt", "cookies"}
    /\ restore = "none" /\ persist = "none"
    /\ FindIdle

NextAuth ==
    \/ \E outcome \in RestoreOutcomes : LoginRestore(outcome)
    \/ \E present \in BOOLEAN : LoginLoadCreds(present)
    \/ \E navOk \in BOOLEAN, emailField \in {"absent", "empty", "prefilled"},
          passwordFound \in BOOLEAN, buttonFound \in BOOLEAN :
          PerformLoginForm(navOk, emailField, passwordFound, buttonFound)
    \/ \E field \in {"email", "password"}, moveOk \in BOOLEAN :
          PerformLoginType(field, moveOk)
    \/ PerformLoginTyping
    \/ PerformLoginTyped
    \/ \E moveOk \in BOOLEAN, clickOk \in BOOLEAN : PerformLoginSubmit(moveOk, clickOk)
    \/ \E result \in {"ok", "invalid", "checkpoint", "timeout"},
          saveOutcome \in {"ok", "fail", "torn"} :
          PerformLoginAwait(result, saveOutcome)

\* main's call of LoginOrRestoreSession (session.go line 288)
SpecAuth == InitAuth /\ [][NextAuth]_vars

\* ---------------------------------------------------------------- claims

Running == pc \in {"loop", "step", "save", "pace"}
Returned == pc = "done" /\ ret \in {"nil", "error"}

\* countToday of the campaign that is running
CountToday ==
    IF workflow = "connect" THEN cstate.RequestsSentToday ELSE mstate.MessagesSentToday

Distinct(s) == \A j, k \in 1..Len(s) : j # k => s[j] # s[k]
FirstTargets(s, n) == {s[k] : k \in 1..n}

\* C1: whenever the step of a target is initiated, in SendRequests and in
\* SendFollowUps, the day counter is strictly below MaxPerDay, and at no
\* position of a run does the counter exceed MaxPerDay.
C1_QuotaCheckedBeforeEachTarget ==
    /\ pc = "step" => CountToday < maxPerDay
    /\ Running => CountToday <= maxPerDay

\* C1 witness: the limit is crossed in the middle of a run and the loop
\* breaks with a target left.
C1_Witness ==
    /\ pc = "done" /\ ret = "nil"
    /\ maxPerDay >= 1
    /\ counts.successCount = maxPerDay
    /\ CountToday = maxPerDay
    /\ i <= Len(profiles)
    /\ i > 1

\* C2: with every load and save succeeding and no run killed, the steps that
\* succeeded on one day, over all the runs of one campaign that took place on
\* that day (none of them was in progress when the day began), do not exceed
\* MaxPerDay.
C2_QuotaAcrossRuns ==
    (~storeFault /\ crashes = 0 /\ ~overnight) => okToday <= maxPerDay

\* C2 witness: two runs on one day fill the quota together.
C2_Witness ==
    /\ ~storeFault /\ crashes = 0 /\ ~overnight
    /\ runs = 2 /\ today = 1
    /\ Returned
    /\ counts.successCount = 1
    /\ okToday = 2 /\ maxPerDay = 2

\* C3: a first run of SendRequests over distinct targets in which no step
\* fails ends with exactly min(MaxPerDay, len) targets succeeded, these being
\* the first ones of the list, the counter equal to that number, and no later
\* target marked attempted; with the saves done the store holds that state.
C3_QuotaBoundary ==
    (/\ workflow = "connect" /\ runs = 1 /\ Returned
     /\ Distinct(profiles)
     /\ counts.errorCount = 0)
    => LET n == Min(maxPerDay, Len(profiles))
       IN  /\ cstate.RequestsSentToday = n
           /\ counts.successCount = n
           /\ cstate.SuccessfulSends = FirstTargets(profiles, n)
           /\ cstate.AttemptedProfiles = FirstTargets(profiles, n)
           /\ (~storeFault /\ n > 0) => connStore = [status |-> "ok", data |-> cstate]

\* C3 witness: more targets than quota, the run stops at the quota.
C3_Witness ==
    /\ workflow = "connect" /\ runs = 1 /\ Returned
    /\ Distinct(profiles) /\ counts.errorCount = 0
    /\ maxPerDay = 1 /\ Len(profiles) = 2
    /\ cstate.AttemptedProfiles = {profiles[1]}
    /\ cstate.RequestsSentToday = 1

\* A run starts: the transition taken by SendRequestsStart / SendFollowUpsStart
\* on a non-empty list whose load returned no error.
StartedWithLoad == runs' = runs + 1 /\ Len(profiles') > 0 /\ ~runFault'

\* C4: at the start of a campaign the counter is reset to zero exactly when the
\* stored day differs from today, before the limit is evaluated (so a state of
\* an earlier day with the counter at the limit lets the run enter its loop
\* when MaxPerDay > 0); a stored state of today keeps its counter; and while a
\* run goes on the counter never decreases.
C4_EpochRollover ==
    [][/\ (StartedWithLoad /\ workflow' = "connect" /\ connStore.status = "ok") =>
            /\ cstate'.RequestsSentToday =
                 IF connStore.data.Date # today THEN 0
                 ELSE connStore.data.RequestsSentToday
            /\ (connStore.data.Date # today /\ maxPerDay > 0) => pc' = "loop"
       /\ (StartedWithLoad /\ workflow' = "followup" /\ msgStore.status = "ok") =>
            /\ mstate'.MessagesSentToday =
                 IF msgStore.data.Date # today THEN 0
                 ELSE msgStore.data.MessagesSentToday
            /\ (msgStore.data.Date # today /\ maxPerDay > 0) => pc' = "loop"
       /\ (Running /\ ret' # "killed") =>
            /\ cstate'.RequestsSentToday >= cstate.RequestsSentToday
            /\ mstate'.MessagesSentToday >= mstate.MessagesSentToday
      ]_vars

\* C4 witness: the store holds yesterday's state with the counter at the
\* limit, and today's run has reset the counter and begun a step.
C4_Witness ==
    /\ workflow = "connect" /\ today = 2 /\ maxPerDay > 0
    /\ connStore.status = "ok"
    /\ connStore.data.Date = 1
    /\ connStore.data.RequestsSentToday = maxPerDay
    /\ pc = "step"
    /\ cstate.Date = 2 /\ cstate.RequestsSentToday = 0

\* C5 as stated, over runs none of which was terminated abruptly: in
\* SendRequests the step is never invoked for a target that is in the
\* attempted set of the run, nor for a target whose step succeeded in an
\* earlier run (where it was put in the attempted set).
C5_Original ==
    (workflow = "connect" /\ pc = "step" /\ crashes = 0) =>
        /\ profiles[i] \notin cstate.AttemptedProfiles
        /\ profiles[i] \notin acted

\* C6 as stated: a replay of SendRequests (same list, same day, the store
\* holding the previous run's output, MaxPerDay at least 1) succeeds for no
\* target and skips every target as a duplicate.
C6_Original ==
    (workflow = "connect" /\ replay /\ Returned /\ maxPerDay >= 1) =>
        /\ counts.successCount = 0
        /\ counts.skipCount = Len(profiles)

\* C6 amended: a replay of SendRequests invokes no step, writes nothing to the
\* store, keeps countToday, attempted, succeeded and failed as the previous
\* run left them, and either skips every target as a duplicate or stops at
\* entry because the daily limit is already reached.
C6_Idempotence ==
    [][(workflow = "connect" /\ replay' /\ today' = today /\ ret' # "killed") =>
          /\ connStore' = connStore
          /\ cstate' = cstate
          /\ okToday' = okToday
          /\ acted' = acted
          /\ pc' \notin {"step", "save"}
          /\ pc' = "done" =>
               /\ counts'.successCount = 0
               /\ counts'.errorCount = 0
               /\ \/ ret' = "nil" /\ counts'.skipCount = Len(profiles')
                  \/ /\ ret' = "error" /\ counts'.skipCount = 0
                     /\ cstate'.RequestsSentToday >= maxPerDay
      ]_vars

\* C6 witness: a replay in which every target of the list was skipped as a
\* duplicate.
C6_Witness ==
    /\ workflow = "connect" /\ replay /\ Returned
    /\ ret = "nil"
    /\ Len(profiles) >= 2
    /\ counts.skipCount = Len(profiles)
    /\ cstate.SuccessfulSends # {} /\ cstate.FailedAttempts # {}

\* C7 as stated, less what the specification tolerates (the target in flight
\* at a kill may lose its bookkeeping and be repeated), with no load or save
\* of the store returning an error: after a run was killed, the actions
\* completed on the day by the runs started on that day exceed MaxPerDay by
\* at most one per kill.
C7_Original ==
    (crashes >= 1 /\ ~overnight) => okToday <= maxPerDay + crashes

\* what the run holds in memory is in the store
OutcomesPersisted ==
    IF workflow = "connect"
    THEN /\ cstate.AttemptedProfiles \subseteq connStore.data.AttemptedProfiles
         /\ cstate.SuccessfulSends \subseteq connStore.data.SuccessfulSends
         /\ cstate.FailedAttempts \subseteq connStore.data.FailedAttempts
    ELSE \A p \in DOMAIN mstate.MessagedProfiles :
            /\ p \in DOMAIN msgStore.data.MessagedProfiles
            /\ msgStore.data.MessagedProfiles[p] = mstate.MessagedProfiles[p]

\* C8 as stated: whenever the step of a target begins, the store already
\* holds the outcome of every target handled before it in the run.
C8_SavedBeforeNextTarget ==
    pc = "step" => OutcomesPersisted

\* C9 as stated: a store load failing for another reason than not-found, or a
\* state save failing, ends the run with the error returned to the caller.
C9_StorageFailureAborts ==
    (runFault /\ ret \notin {"killed", "panic"}) => (pc = "done" /\ ret = "error")

\* the failure of the step of profiles[i] is in the in-memory record
FailureRecorded(cs, ms) ==
    IF workflow = "connect"
    THEN profiles[i] \in cs.FailedAttempts
    ELSE /\ profiles[i] \in DOMAIN ms.MessagedProfiles
         /\ ~ms.MessagedProfiles[profiles[i]].Success

\* C10 as stated: a failing step never escapes the loop, its failure is put in
\* the record that is saved next, and the run goes on and returns nil.
C10_StepFailureContained ==
    [][/\ ret' # "panic"
       /\ (pc = "step" /\ counts'.errorCount > counts.errorCount) =>
             /\ pc' = "save"
             /\ FailureRecorded(cstate', mstate')
       /\ (Running /\ pc' = "done" /\ ret' # "killed" /\ counts'.errorCount > 0) =>
             ret' = "nil"
      ]_vars

\* the errors by which sendConnectionRequest reports that the Connect role is
\* unavailable for a known reason
UnavailableErrors ==
    {"find connect button: connect unavailable: already following",
     "find connect button: connect unavailable: connection request already pending",
     "find connect button: connect unavailable: already connected"}

\* C11 as stated: when the locator reports the Connect role unavailable for a
\* known reason (already following, request pending, already connected) the
\* target is not entered in the failed map and not counted as an error; any
\* other error is entered in the failed map.
C11_IneligibleNotFailed ==
    [][(pc = "step" /\ pc' = "save") =>
          /\ stepErr' \in UnavailableErrors =>
                /\ profiles[i] \notin cstate'.FailedAttempts
                /\ counts'.errorCount = counts.errorCount
          /\ (stepErr' # "" /\ stepErr' \notin UnavailableErrors) =>
                profiles[i] \in cstate'.FailedAttempts
      ]_vars

\* C12 as stated: a run that finds countToday at or above MaxPerDay (here at
\* least 1) at entry, after the day rollover, attempts no target, leaves the
\* store as it is, and stops normally: no error is returned to the caller.
C12_EntryQuotaNormalStop ==
    [][(/\ runs' = runs + 1 /\ Len(profiles') > 0
        /\ maxPerDay >= 1 /\ CountToday' >= maxPerDay) =>
          /\ pc' = "done"
          /\ connStore' = connStore /\ msgStore' = msgStore
          /\ okToday' = okToday /\ acted' = acted
          /\ counts' = ZeroCounts
          /\ ret' = "nil"
      ]_vars

\* the step of SendRequests on profiles[i] succeeds in this transition
ConnectStepSucceeds == workflow = "connect" /\ pc = "step" /\ okToday' = okToday + 1

\* succeeded is part of attempted, in memory and in the store
SucceededWithinAttempted ==
    /\ cstate.SuccessfulSends \subseteq cstate.AttemptedProfiles
    /\ connStore.data.SuccessfulSends \subseteq connStore.data.AttemptedProfiles

\* C13 as stated, over runs none of which was terminated abruptly: starting
\* from an empty store, over any sequence of SendRequests runs, every
\* succeeded target is an attempted one and the step of a target succeeds at
\* most once.
C13_Original ==
    [][/\ SucceededWithinAttempted'
       /\ (ConnectStepSucceeds /\ crashes = 0) => profiles[i] \notin acted
      ]_vars

\* C14 as stated: once the stop signal has been received no further target is
\* started: a run at the head of its loop or in its pacing wait does not go on
\* to a step, and the pacing wait ends the run.
C14_CooperativeCancellation ==
    [][(cancelled /\ Running) =>
          /\ pc # "step" => pc' # "step"
          /\ pc = "pace" => pc' = "done"
      ]_vars

\* the pacing wait has been taken
Paced == pc = "loop" /\ i = 2

\* C15 as stated: for every configured wait the pacing wait is at least the
\* floor of the workflow, 5 seconds for connection requests and 10 seconds for
\* follow-up messages.
C15_Original ==
    Paced => Leq64(PacingFloor(workflow), waitTime)

\* the profiles a message state records as successfully messaged
SuccessfullyMessaged(state) ==
    {p \in DOMAIN state.MessagedProfiles : state.MessagedProfiles[p].Success}

\* C16 as stated, over runs none of which was terminated abruptly: in
\* SendFollowUps the step (connection check and send) is never invoked for a
\* profile that the state of the run holds as successfully messaged, nor for
\* one that an earlier run, of any day, recorded as successfully messaged.
C16_Original ==
    (workflow = "followup" /\ pc = "step" /\ crashes = 0) =>
        /\ profiles[i] \notin SuccessfullyMessaged(mstate)
        /\ profiles[i] \notin acted

\* C17 as stated: in SendFollowUps a target whose send was attempted, with
\* success or with failure, is in the record and its step is not invoked
\* again, by a later occurrence in the list or by a later run.
C17_AttemptedNotRepeated ==
    (workflow = "followup" /\ pc = "step") =>
        profiles[i] \notin DOMAIN mstate.MessagedProfiles

\* FindPeople has returned its list with a nil error
SearchReturned == dpc = "done" /\ dret = "nil"

\* C18 as stated: every target FindPeople collects is in normalized form,
\* occurs once in the list and was not in the seen set loaded at the start;
\* and when FindPeople returns targets without error the saved seen set is the
\* loaded one plus the returned targets, and no returned target was returned
\* by an earlier call.
C18_DiscoveryDedup ==
    /\ \A k \in 1..Len(allProfiles) :
          /\ normalizeProfileURL(allProfiles[k]) = allProfiles[k]
          /\ allProfiles[k] \notin loadedSeen
    /\ Distinct(allProfiles)
    /\ (SearchReturned /\ allProfiles # << >>) =>
          /\ seenStore = [status |-> "ok", data |-> loadedSeen \cup Range(allProfiles)]
          /\ Range(allProfiles) \cap returnedBefore = {}

\* C19 as stated: after a result page that yielded no new candidate FindPeople
\* does not move on to another page.
C19_StopsOnNoNewCandidates ==
    [][(dpc = "paginate" /\ newCount = 0) => dpc' # "loop"]_vars

\* C20 as stated: FindPeople extracts at most maxPages result pages and makes
\* no page transition once page number maxPages has been processed.
C20_BoundedByMaxPages ==
    [][/\ extracted' <= (IF maxPages' < 0 THEN 0 ELSE maxPages')
       /\ transitions' > transitions => currentPage < maxPages
      ]_vars

\* C21: normalizeProfileURL maps every reference to a profile (absolute or
\* relative, with or without query string, fragment, trailing slash or
\* sub-path) to the one identifier of that profile, and returns its own
\* result unchanged when applied to it.
C21_CanonicalAndIdempotent ==
    /\ \A id \in Targets :
          (normalized # NoResult /\ rawURL \in ProfileRefs(id))
              => normalized = ProfileURL(id)
    /\ renormalized # NoResult => renormalized = normalized

\* the call under examination has ended
DelayCalled == delayPc # "call"

\* the bounds the result has to respect: minMs raised to 0, maxMs raised to that
LowerBoundMs == IF IsNegative(minMs) THEN Zero64 ELSE minMs

UpperBoundMs == IF Less64(maxMs, LowerBoundMs) THEN LowerBoundMs ELSE maxMs

\* the call returned a duration d of whole milliseconds with
\* LowerBoundMs <= d / Millisecond <= UpperBoundMs
DelayWithinClampedBounds ==
    /\ delayPc = "returned"
    /\ ~IsNegative(delay)
    /\ delay = Times(Milliseconds(delay), Millisecond)
    /\ Leq64(LowerBoundMs, Milliseconds(delay))
    /\ Leq64(Milliseconds(delay), UpperBoundMs)

\* C22 as stated, the bounds asked of the result only where the clamped upper
\* bound in milliseconds is representable as a time.Duration: for all
\* integers minMs and maxMs both RandomDelay functions return a value instead
\* of panicking, a duration between the clamped bounds (minMs raised to 0,
\* maxMs raised to minMs) in milliseconds.
C22_Original ==
    DelayCalled =>
        /\ delayPc = "returned"
        /\ Leq64(UpperBoundMs, MaxWaitMs) => DelayWithinClampedBounds

\* MoveMouseHuman returned nil
MouseMoved == mousePc = "done" /\ mouseRet = "nil"

\* C23: whenever MoveMouseHuman returns without error, the last pointer
\* position it issued is exactly the (toX, toY) passed by the caller,
\* overshoot or not.
C23_EndsOnTarget ==
    MouseMoved => lastMove = ExactMove(callerTo[1], callerTo[2])

\* the square of the distance between the two points of the call
CallDist2 == Dist2(fromX, fromY, callerTo[1], callerTo[2])

\* int(distance/8)+20 clamped to [25, 220]
ExpectedSteps ==
    LET raw == ISqrt(CallDist2 \div 64) + 20
    IN  IF raw < 25 THEN 25 ELSE IF raw > 220 THEN 220 ELSE raw

\* C24: a call that returns nil has issued at least one pointer position and
\* at most 220 + 1. For a distance below 2 it samples no curve point and
\* issues a single direct move. Otherwise it samples int(distance/8)+20
\* points clamped to [25, 220], no fewer than for any shorter distance, and
\* issues one final move after the curve.
C24_PathLength ==
    /\ MouseMoved => (issued >= 1 /\ issued <= 220 + 1 /\ lastMove.kind = "exact")
    /\ (mousePc = "done" /\ CallDist2 < 4) => (points = 0 /\ issued = 1)
    /\ (mousePc # "call" /\ CallDist2 >= 4) => points = ExpectedSteps
    /\ mousePc = "curve" =>
          \A fx \in FromXs, tx \in ToXs, ty \in ToYs :
             (~Direct(Dist2(fx, 0, tx, ty)) /\ Dist2(fx, 0, tx, ty) <= CallDist2)
                 => SampleSteps(Dist2(fx, 0, tx, ty)) <= points
    /\ (MouseMoved /\ CallDist2 >= 4) => issued \in {1 + 1, points + 1}

\* C24 witness: a move over a distance between the two clamps has sampled
\* 20 + 50 points and ended with the final move.
C24_Witness ==
    /\ MouseMoved /\ fromX = 0 /\ callerTo = <<400, 0>>
    /\ points = 70 /\ issued = 71

\* what a text field holds after the key events ks: a typed rune is appended,
\* Backspace removes the last rune
RECURSIVE FieldAfter(_, _)
FieldAfter(ks, field) ==
    IF ks = << >> THEN field
    ELSE IF Head(ks).key = "Backspace"
         THEN FieldAfter(Tail(ks), IF field = << >> THEN << >>
                                   ELSE SubSeq(field, 1, Len(field) - 1))
         ELSE FieldAfter(Tail(ks), Append(field, Head(ks).key))

\* TypeHuman returned nil
Typed == typPc = "done" /\ typRet = "nil"

\* C25: whenever TypeHuman returns nil, the delivered key events, each
\* deletion cancelling the character before it, spell exactly the text; and
\* at any time a wrong character, once followed by anything, is followed by a
\* deletion and that by the character of the text.
C25_TextPreserved ==
    /\ Typed => FieldAfter(keys, << >>) = typText
    /\ \A k \in 1..Len(keys) :
          keys[k].typo =>
             /\ k + 1 <= Len(keys) => keys[k + 1].key = "Backspace"
             /\ k + 2 <= Len(keys) =>
                   (~keys[k + 2].typo /\ keys[k + 2].key # "Backspace")
             /\ Typed => k + 2 <= Len(keys)

\* C25 witness: a text has been typed with a typo on its way, corrected.
C25_Witness ==
    /\ Typed /\ typText = <<"a", "Q">>
    /\ \E k \in 1..Len(keys) : keys[k].typo /\ keys[k].key # typText[1]
    /\ Len(keys) > Len(typText)

\* C26: once the delivery of a scroll, click or key event has failed,
\* TypeHuman delivers no further key event and returns an error, never nil.
C26_FailureSurfaced ==
    [][/\ typFailed => keys' = keys
       /\ (typFailed' /\ typPc' = "done") => typRet' = "error"
       /\ typFailed' => typPc' = "done"
      ]_vars

\* C26 witness: the deletion after a wrong character failed; the wrong
\* character is the last key delivered and the call has returned the error.
C26_Witness ==
    /\ typFailed /\ typPc = "done" /\ typRet = "error"
    /\ keys # << >> /\ keys[Len(keys)].typo

\* C27: after the step of a target in which the delivery of a click, type or
\* scroll action failed, the target is recorded in failed and not in
\* succeeded, and is not counted as a success.
C27_DeliveryFailureIsTargetFailure ==
    (workflow = "connect" /\ pc = "save" /\ undelivered # {})
        => /\ profiles[i] \in cstate.FailedAttempts
           /\ profiles[i] \notin cstate.SuccessfulSends
           /\ profiles[i] \notin acted

\* C28: for every non-empty key k, Load(k) returns NotFound when k was never
\* saved or was deleted, and exactly the data of the last Save(k, v) until k
\* is saved or deleted again; Delete of an absent key returns nil; Save, Load
\* and Delete with the empty key return an error and change no file.
C28_RoundTrip ==
    /\ \A k \in StoreKeys \ {EmptyKey} :
          /\ saved[k] = NeverSaved => Load(baseDir, files, k, "ok").err = NotFound
          /\ saved[k] \in StoreData =>
                Load(baseDir, files, k, "ok") = [err |-> "", data |-> saved[k]]
    /\ (fsOp.op = "Delete" /\ fsOp.key # EmptyKey) => fsOp.err = ""
    /\ (fsOp.op \in {"Save", "Load", "Delete"} /\ fsOp.key = EmptyKey)
          => fsOp.err # ""

\* C29: a Save or a Delete on a key k1 never changes what Load(k2) returns
\* for another non-empty key k2.
C29_KeysIndependent ==
    [][\A k2 \in StoreKeys \ {EmptyKey} :
          (fsCount' > fsCount /\ fsOp'.op \in {"Save", "Delete"} /\ fsOp'.key # k2)
              => Load(baseDir', files', k2, "ok") = Load(baseDir, files, k2, "ok")
      ]_vars

\* C30: the program never enters credentials: no key is ever typed into the
\* email or the password field of the login form, and the form is never
\* submitted by the automation.
C30_NoCredentialAutomation ==
    /\ (typField \in {"email", "password"}) => keys = << >>
    /\ ~submitted

\* C31: once a checkpoint / CAPTCHA / challenge page has been presented the
\* automation stops: in a connection campaign no step of a further target
\* begins in the run whose step has met the checkpoint page. (At login the
\* checkpoint ends LoginOrRestoreSession with ErrCheckpoint and main exits.)
C31_StopsAtCheckpoint ==
    (workflow = "connect" /\ pc = "step") => challenge # runs

\* the locator has returned
FindReturned == findPc = "returned" /\ located # NotCalled

\* what the locator called looks for
Keyword ==
    IF findKind = "connect" THEN <<"c", "o", "n", "n", "e", "c", "t">>
    ELSE <<"m", "e", "s", "s", "a", "g", "e">>

\* str contains the keyword, whatever the case of its letters
SaysKeyword(str) ==
    \E k \in 0..(Len(str) - Len(Keyword)) :
        \A j \in 1..Len(Keyword) : Lower(str[k + j]) = Keyword[j]

\* the strategies whose selector matches an element that says the keyword in
\* its text or in its aria-label
ValidStrategies ==
    {k \in 1..Len(dom.matches) :
        /\ dom.matches[k] # NoElement
        /\ \/ SaysKeyword(dom.matches[k].text)
           \/ dom.matches[k].hasAria /\ SaysKeyword(dom.matches[k].aria)}

\* C32: the locator returns a handle exactly when some strategy matches an
\* element whose text or aria-label contains the keyword, case-insensitively;
\* the handle is the element of the first such strategy in list order, and
\* elements matched by earlier strategies that fail the check are passed over.
C32_FirstValidatedMatch ==
    FindReturned =>
        /\ (located.err = "") = (ValidStrategies # {})
        /\ located.err = "" =>
              /\ located.sel \in ValidStrategies
              /\ \A k \in ValidStrategies : located.sel <= k
              /\ located.btn = dom.matches[located.sel]
        /\ located.err # "" => located.btn = NoElement

\* C32 witness: the first strategy matched an element that does not say
\* "connect", a later strategy matched one that says it in its aria-label
\* only, in upper case, and that one is returned.
C32_Witness ==
    /\ FindReturned /\ findKind = "connect"
    /\ dom.matches[1] # NoElement /\ 1 \notin ValidStrategies
    /\ located.err = "" /\ located.sel > 1
    /\ ~SaysKeyword(located.btn.text) /\ located.btn.hasAria

\* the error of the locator called for its r-th indicator, and its not-found
\* error
UnavailableError(r) ==
    IF findKind = "connect" THEN "connect unavailable: " \o unavailableReasons[r]
    ELSE "messaging unavailable: " \o restrictedReasons[r]

NotFoundError ==
    IF findKind = "connect"
    THEN "connect button not found - may already be connected or profile restricted"
    ELSE "message button not found"

\* C33: the indicators count only when no strategy gives a validated match;
\* then the error names the reason of the first indicator, in list order,
\* that matches, and it is the not-found error, different from each of
\* those, when none matches.
C33_TwoTierFailure ==
    FindReturned =>
        /\ ValidStrategies # {} => located.err = ""
        /\ (ValidStrategies = {} /\ dom.indicators = {}) => located.err = NotFoundError
        /\ (ValidStrategies = {} /\ dom.indicators # {}) =>
              \E r \in dom.indicators :
                  /\ \A q \in dom.indicators : r <= q
                  /\ located.err = UnavailableError(r)
                  /\ located.err # NotFoundError

\* C33 witness: a structurally matched element failed the check, two
\* indicators match, and the error names the first one.
C33_Witness ==
    /\ FindReturned /\ findKind = "connect"
    /\ ValidStrategies = {} /\ dom.matches[1] # NoElement
    /\ dom.indicators = {2, 3}
    /\ located.err = "connect unavailable: connection request already pending"

\* C34: between the end of a target's step and the start of the next target's
\* step there is always a pacing wait, whatever the outcome of the step: a run
\* never comes back to the head of its loop from a step, or from the save that
\* follows it, but through the pacing wait.
C34_PacedAfterEveryStep ==
    [][(pc \in {"step", "save"}) => (pc' # "loop")]_vars

\* attempted is the disjoint union of succeeded and failed in this state
DisjointUnion(state) ==
    /\ state.AttemptedProfiles = state.SuccessfulSends \cup state.FailedAttempts
    /\ state.SuccessfulSends \cap state.FailedAttempts = {}

\* C36: starting from an empty store, after any sequence of SendRequests runs
\* the attempted set is the disjoint union of the succeeded and the failed
\* map, in the state of the run and in the saved state.
C36_AttemptedIsDisjointUnion ==
    workflow = "connect" =>
        /\ DisjointUnion(cstate)
        /\ connStore.status = "ok" => DisjointUnion(connStore.data)

\* C36 witness: after two runs the saved state holds one succeeded and one
\* failed target, and both are attempted.
C36_Witness ==
    /\ workflow = "connect" /\ runs = 2 /\ Returned
    /\ connStore.status = "ok"
    /\ connStore.data.SuccessfulSends # {}
    /\ connStore.data.FailedAttempts # {}
    /\ Cardinality(connStore.data.AttemptedProfiles) = 2

\* the attempt records of a connection state
AttemptRecords(state) ==
    <<state.AttemptedProfiles, state.SuccessfulSends, state.FailedAttempts>>

\* C37 as stated, over runs none of which was terminated abruptly: the day
\* rollover at the start of a run changes the stored day and the day counter
\* only (the run starts with the attempted, succeeded and failed records,
\* and the messaged records, of the state it loaded, whatever its day); and
\* in a run of a later day the step of SendRequests is never invoked for a
\* target that the saved state of an earlier day holds as attempted, failed
\* or not.
C37_Original ==
    [][/\ (StartedWithLoad /\ workflow' = "connect" /\ connStore.status = "ok") =>
            AttemptRecords(cstate') = AttemptRecords(connStore.data)
       /\ (StartedWithLoad /\ workflow' = "followup" /\ msgStore.status = "ok") =>
            mstate'.MessagedProfiles = msgStore.data.MessagedProfiles
       /\ (workflow' = "connect" /\ pc' = "step" /\ crashes' = 0
           /\ cstate'.Date = today'
           /\ connStore'.status = "ok" /\ connStore'.data.Date < today') =>
            profiles'[i'] \notin connStore'.data.AttemptedProfiles
      ]_vars

\* FindPeople has returned an error
SearchFailed == dpc = "done" /\ dret = "error"

\* C38: a FindPeople call that returns an error returns no target, those
\* collected from earlier pages included, and leaves the saved seen set as it
\* was before the call; the seen set is written only by the save that ends a
\* call returning without error.
C38_FailedSearchKeepsSeenSet ==
    [][/\ SearchFailed' => (seenStore' = seenStore /\ allProfiles' = << >>)
       /\ (SearchFailed' /\ searchFaults' = 0 /\ seenStore'.status = "ok") =>
             seenStore'.data = loadedSeen'
       /\ seenStore' # seenStore => (dpc = "save" /\ SearchReturned')
      ]_vars

\* C38 witness: a second call has collected new targets from its first page
\* and has failed on its second page: nothing is returned and the saved seen
\* set is the one of the first call.
C38_Witness ==
    /\ SearchFailed /\ searches = 2 /\ extracted = 2 /\ searchFaults = 0
    /\ seenStore.status = "ok" /\ seenStore.data = loadedSeen /\ loadedSeen # {}
    /\ seenProfiles # loadedSeen
    /\ allProfiles = << >>

\* the profile a URL refers to: the path segment after "/in/" ("" if none)
ProfileOf(u) ==
    IF \E k \in 1..Len(u.segs) : u.segs[k] = "in" /\ k < Len(u.segs)
    THEN u.segs[FirstIn(u.segs) + 1]
    ELSE ""

\* the profiles earlier calls have returned and the seen set on disk holds
SavedAndReturned ==
    IF seenStore.status = "ok" THEN seenStore.data \cap returnedBefore ELSE {}

\* C39: a program run hands the list FindPeople returned to the connection
\* and follow-up campaigns, and each profile is handed over in at most one
\* program run: a call that returns without error returns no profile that an
\* earlier call has returned and that the saved seen set holds.
C39_HandedOverOnce ==
    [][(dpc = "save" /\ SearchReturned') =>
          {ProfileOf(u) : u \in Range(allProfiles')}
              \cap {ProfileOf(u) : u \in SavedAndReturned} = {}
      ]_vars

\* what restoreSession met when the stored session is absent, unparsable,
\* cannot be injected or is no longer valid
Unusable == {"absent", "unparseable", "injectFailed", "stale"}

\* C35: LoginOrRestoreSession performs no login when the stored session
\* validates; it goes on to the login flow, instead of returning an error,
\* when the stored session is absent, unparsable, cannot be injected or is no
\* longer valid; after a successful login it saves the session, and it
\* returns nil whether the save succeeds or not.
C35_RestoreWithFallback ==
    [][/\ restore' = "restored" =>
            (authPc' = "done" /\ authRet' = "nil" /\ ~submitted' /\ persist' = "none")
       /\ (authPc = "restore" /\ restore' \in Unusable) =>
            (authPc' = "creds" /\ authRet' = "none")
       /\ (authPc = "await" /\ authRet' = "nil") =>
            /\ persist' \in {"ok", "fail", "torn"}
            /\ persist' = "ok" => session' = "fresh"
       /\ persist' \in {"fail", "torn"} => authRet' = "nil"
      ]_vars

\* C35 witness: the stored cookies were stale, the login flow has run and
\* succeeded, the save of the new session failed, and nil is returned.
C35_Witness ==
    /\ restore = "stale" /\ submitted
    /\ authPc = "done" /\ authRet = "nil"
    /\ persist = "fail" /\ session = "cookies"

====
